---- MODULE Spec2Model ----
(***************************************************************************)
(* Trivia game fulfillment (functions/index.js, functions/utils.js):       *)
(* question selection, answer shuffling and the per-session turn handlers. *)
(* JavaScript arrays are sequences; question indexes and answer positions  *)
(* keep their 0-based values, so element k of an array a is a[k + 1].      *)
(***************************************************************************)
EXTENDS Integers, Sequences, FiniteSets, TLC

\* ------------------------------------------------------------------------
\* Program constants
\* ------------------------------------------------------------------------
MAX_PREVIOUS_QUESTIONS == 100
QUESTIONS_PER_GAME == 4

\* ------------------------------------------------------------------------
\* Bounds of the exploration
\* ------------------------------------------------------------------------
\* Corpus sizes 1..MaxN are explored with every random draw.
MaxN == 5
\* Rounds one user plays against a corpus of at most MaxN questions.
MaxRounds == 3
\* A corpus larger than MAX_PREVIOUS_QUESTIONS, explored under the "lowest" draw order.
BigN == 101
\* Rounds one user plays against the corpus of BigN questions.
MaxBigRounds == 28
\* Draws of an index that is already in `checked`, per call of selectQuestions.
MaxRepeats == 1
\* Rounds of one conversation with the game.
MaxSessionRounds == 2
\* Longest answer set handed to selectAnswers on its own.
MaxAnswers == 3

\* The value JavaScript yields for a read past the end of an array.
Undefined == -1

VARIABLES
    questionsLength,    \* questions.length of the corpus loaded from the database
    gameLength,         \* let gameLength (clamped by selectQuestions)
    previousQuestions,  \* app.data.previousQuestions, also written to the user record
    prevLocal,          \* selectQuestions: let previousQuestions (after the slice)
    selected,           \* selectQuestions: const selected
    checked,            \* selectQuestions: const checked
    i,                  \* selectQuestions: let i
    previousIndex,      \* selectQuestions: let previousIndex
    selpc,              \* position inside selectQuestions: "idle", "loop", "done"
    draws,              \* calls of utils.getRandomNumber made by the current call
    repeats,            \* those draws that returned an index already in checked
    rounds,             \* calls of selectQuestions made for this user
    drawOrder,          \* draws explored: "every" index, or the "lowest" that fits
    data,               \* app.data, the session fields kept between turns
    response,           \* how the last turn answered: "ask", "tell", "none";
                        \* "idle" before the first turn, "pending" inside startNewRound
    contexts,           \* contexts set by the last response (app.setContext)
    turn,               \* the handler and branch that produced the last response
    tally,              \* turns of the current round: answers right, wrong, other turns
    shufAnswers,        \* selectAnswers called on its own: the answers argument
    shufIndex,          \* ... the correctIndex argument
    shufResult,         \* ... the value returned
    fuzzyValue1,        \* utils.fuzzyMatch called on its own: the argument value1
    fuzzyValue2,        \* ... the argument value2
    fuzzyResult,        \* ... the values returned: <<>> before the call, <<value>> after
    synValues,          \* utils.generateSynonyms called on its own: the argument values
    synResults,         \* ... the results passed to the callback (<<>> before the call)
    promptType,         \* getRandomPrompt: the prompt type asked for (its number of templates)
    prompt,             \* Themes.getRandomPrompt: let prompt (<<>> before the first draw)
    counter,            \* Themes.getRandomPrompt: let counter
    promptpc,           \* position inside getRandomPrompt: "idle", "loop", "returned"
    lastPrompt,         \* app.data.lastPrompt (<<>> when undefined)
    hasLastPrompt,      \* let hasLastPrompt of the request being handled
    promptCalls,        \* calls of getRandomPrompt made in this conversation
    store,              \* the last database read a handler waits for, and its answer
    user,               \* the record of the user in the database: the score fields
    persisting,         \* persistScore in each session: its position, score and snapshot
    persistLog          \* the scores written so far, and whether two calls overlapped

selVars == <<questionsLength, gameLength, previousQuestions, prevLocal, selected,
             checked, i, previousIndex, selpc, draws, repeats, rounds, drawOrder>>

sessVars == <<data, response, contexts, turn, tally>>

shufVars == <<shufAnswers, shufIndex, shufResult>>

fuzzyVars == <<fuzzyValue1, fuzzyValue2, fuzzyResult>>

synVars == <<synValues, synResults>>

promptVars == <<promptType, prompt, counter, promptpc, lastPrompt, hasLastPrompt, promptCalls>>

scoreVars == <<user, persisting, persistLog>>

utilVars == <<fuzzyVars, synVars, promptVars, store, scoreVars>>

vars == <<selVars, sessVars, shufVars, utilVars>>

\* ------------------------------------------------------------------------
\* Helpers for JavaScript arrays
\* ------------------------------------------------------------------------
Range(s) == {s[k] : k \in 1..Len(s)}

\* Array.prototype.slice(from, array.length)
SliceFrom(s, from) == [k \in 1..(IF Len(s) > from THEN Len(s) - from ELSE 0) |-> s[k + from]]

\* array[k] with JavaScript's out-of-range read
At(s, k) == IF k >= 0 /\ k < Len(s) THEN s[k + 1] ELSE Undefined

Min(a, b) == IF a < b THEN a ELSE b

NoDuplicates(s) == \A a, b \in 1..Len(s) : a # b => s[a] # s[b]

\* ------------------------------------------------------------------------
\* Strings (functions/utils.js).  A string is the sequence of its characters.
\* ------------------------------------------------------------------------
SEPARATOR == "|"
SPACE == " "

UpperCase == <<"A", "B", "C", "D", "E", "F", "G", "H", "I", "J", "K", "L", "M",
               "N", "O", "P", "Q", "R", "S", "T", "U", "V", "W", "X", "Y", "Z">>
LowerCase == <<"a", "b", "c", "d", "e", "f", "g", "h", "i", "j", "k", "l", "m",
               "n", "o", "p", "q", "r", "s", "t", "u", "v", "w", "x", "y", "z">>

\* String.prototype.toLowerCase / toLocaleLowerCase
ToLowerChar(c) ==
    IF \E k \in 1..Len(UpperCase) : UpperCase[k] = c
    THEN LowerCase[CHOOSE k \in 1..Len(UpperCase) : UpperCase[k] = c]
    ELSE c

ToLowerCase(s) == [k \in 1..Len(s) |-> ToLowerChar(s[k])]

\* String.prototype.trim
RECURSIVE TrimLeft(_)
TrimLeft(s) == IF s # <<>> /\ Head(s) = SPACE THEN TrimLeft(Tail(s)) ELSE s

RECURSIVE TrimRight(_)
TrimRight(s) ==
    IF s # <<>> /\ s[Len(s)] = SPACE THEN TrimRight(SubSeq(s, 1, Len(s) - 1)) ELSE s

Trim(s) == TrimRight(TrimLeft(s))

\* String.prototype.split(sep) for a one-character separator
RECURSIVE SplitFrom(_, _, _, _)
SplitFrom(s, sep, cur, acc) ==
    IF s = <<>> THEN Append(acc, cur)
    ELSE IF Head(s) = sep THEN SplitFrom(Tail(s), sep, <<>>, Append(acc, cur))
    ELSE SplitFrom(Tail(s), sep, Append(cur, Head(s)), acc)

Split(s, sep) == SplitFrom(s, sep, <<>>, <<>>)

\* utils.getSynonyms: the pieces between | characters, each trimmed
GetSynonyms(value) ==
    IF value # <<>>
    THEN [k \in 1..Len(Split(value, SEPARATOR)) |-> Trim(Split(value, SEPARATOR)[k])]
    ELSE <<>>

\* utils.compareStrings
CompareStrings(string1, string2) ==
    /\ string1 # <<>>
    /\ string2 # <<>>
    /\ Trim(ToLowerCase(string1)) = Trim(ToLowerCase(string2))

\* utils.isTrueFalse
TRUE_STRING == <<"t", "r", "u", "e">>
FALSE_STRING == <<"f", "a", "l", "s", "e">>

IsTrueFalse(answers) ==
    /\ Len(answers) = 2
    /\ \/ ToLowerCase(answers[1]) = TRUE_STRING /\ ToLowerCase(answers[2]) = FALSE_STRING
       \/ ToLowerCase(answers[2]) = TRUE_STRING /\ ToLowerCase(answers[1]) = FALSE_STRING

\* utils.removePunctuationAndSpaces (the backquote of the character class has no
\* TLA+ string literal; no modelled string contains it)
Punctuation == {".", ",", "/", "#", "!", "$", "%", "^", "&", "*", ";", ":", "{", "}",
                "=", "-", "_", "~", "(", ")"}

RemovePunctuationAndSpaces(value) ==
    SelectSeq(value, LAMBDA c : c \notin Punctuation /\ c # SPACE)

\* new Levenshtein(a, b).distance, computed row by row
Min3(a, b, c) == Min(a, Min(b, c))

RECURSIVE LevRow(_, _, _, _)
LevRow(prev, ch, b, row) ==
    IF Len(row) = Len(b) + 1 THEN row
    ELSE LET j == Len(row)
             cost == IF b[j] = ch THEN 0 ELSE 1
         IN LevRow(prev, ch, b,
                   Append(row, Min3(prev[j + 1] + 1, row[j] + 1, prev[j] + cost)))

RECURSIVE LevRows(_, _, _, _)
LevRows(a, b, k, prev) ==
    IF k > Len(a) THEN prev[Len(b) + 1]
    ELSE LevRows(a, b, k + 1, LevRow(prev, a[k], b, <<prev[1] + 1>>))

Levenshtein(a, b) == LevRows(a, b, 1, [j \in 1..(Len(b) + 1) |-> j - 1])

\* Variant: the comparison without the test of the two lengths.
FuzzyMatchAnyLength(value1, value2) ==
    Levenshtein(RemovePunctuationAndSpaces(ToLowerCase(value1)),
                RemovePunctuationAndSpaces(ToLowerCase(value2))) <= 1

\* utils.fuzzyMatch
FuzzyMatch(value1, value2) ==
    LET v1 == RemovePunctuationAndSpaces(ToLowerCase(value1))
        v2 == RemovePunctuationAndSpaces(ToLowerCase(value2))
    IN (Len(v1) > 3 /\ Len(v2) > 3) /\ Levenshtein(v1, v2) <= 1

\* utils.generateSynonyms.  `synonyms` is the array the code uses as a map from
\* the trimmed values to their lists: a sequence of <<key, list>> pairs in the
\* order the keys were first assigned, which is the order of `for (key in synonyms)`.
IgnorableWords ==
    {<<"t", "h", "e">>, <<"a">>, <<"a", "n", "d">>, <<"o", "r">>, <<"&">>, <<"o", "f">>,
     <<"f", "o", "r">>, <<"a", "n">>, <<"b", "y">>}

IsIgnorableWord(result) == result \in IgnorableWords

\* array.indexOf(x), 0-based, -1 when absent
IndexOf(list, x) ==
    IF \E k \in 1..Len(list) : list[k] = x
    THEN (CHOOSE k \in 1..Len(list) : list[k] = x /\ \A m \in 1..(k - 1) : list[m] # x) - 1
    ELSE -1

\* array.splice(index, 1); a negative index counts from the end of the array
SpliceOne(list, index) ==
    LET start == IF index < 0
                 THEN (IF Len(list) + index > 0 THEN Len(list) + index ELSE 0)
                 ELSE index
    IN IF start < Len(list)
       THEN [k \in 1..(Len(list) - 1) |-> IF k <= start THEN list[k] ELSE list[k + 1]]
       ELSE list

\* value.split(' ') without the ignorable words (the loops at 116-121 and 132-137)
WordsOf(value) ==
    SelectSeq(Split(value, SPACE), LAMBDA w : ~IsIgnorableWord(Trim(ToLowerCase(w))))

\* allValues.push(results[l]) for the results not yet in allValues (138-142)
RECURSIVE PushNew(_, _)
PushNew(allValues, results) ==
    IF results = <<>> THEN allValues
    ELSE PushNew(IF IndexOf(allValues, Head(results)) = -1
                 THEN Append(allValues, Head(results)) ELSE allValues,
                 Tail(results))

RECURSIVE PushSplits(_, _)
PushSplits(allValues, splits) ==
    IF splits = <<>> THEN allValues
    ELSE PushSplits(PushNew(allValues, WordsOf(Trim(Head(splits)))), Tail(splits))

\* the list findAllSynonyms assigns to synonyms[value]
SynonymsOfValue(value) ==
    IF IndexOf(value, SEPARATOR) = -1
    THEN LET results == WordsOf(value)
         IN IF IndexOf(results, value) = -1 THEN <<value>> \o results ELSE results
    ELSE PushSplits(<<value>>, Split(value, SEPARATOR))

\* the position of key in synonyms (1-based), 0 when synonyms[key] is undefined
KeyIndex(synonyms, key) ==
    IF \E k \in 1..Len(synonyms) : synonyms[k][1] = key
    THEN CHOOSE k \in 1..Len(synonyms) : synonyms[k][1] = key
    ELSE 0

\* synonyms[key] = list
Assign(synonyms, key, list) ==
    IF KeyIndex(synonyms, key) = 0 THEN Append(synonyms, <<key, list>>)
    ELSE [synonyms EXCEPT ![KeyIndex(synonyms, key)] = <<key, list>>]

RECURSIVE FindAllSynonyms(_, _)
FindAllSynonyms(synonyms, values) ==
    IF values = <<>> THEN synonyms
    ELSE FindAllSynonyms(Assign(synonyms, Trim(Head(values)),
                                SynonymsOfValue(Trim(Head(values)))),
                         Tail(values))

\* The loop over j at 164-173 for one other key: <<valueSynonyms, otherSynonyms>>
RECURSIVE RemoveShared(_, _, _, _)
RemoveShared(valueSynonyms, otherSynonyms, valueSynonymsClone, otherSynonymsClone) ==
    IF valueSynonymsClone = <<>> THEN <<valueSynonyms, otherSynonyms>>
    ELSE LET result == Head(valueSynonymsClone)
         IN IF IndexOf(otherSynonymsClone, result) # -1
            THEN RemoveShared(IF IndexOf(valueSynonyms, result) # -1
                              THEN SpliceOne(valueSynonyms, IndexOf(valueSynonyms, result))
                              ELSE valueSynonyms,
                              SpliceOne(otherSynonyms, IndexOf(otherSynonyms, result)),
                              Tail(valueSynonymsClone), otherSynonymsClone)
            ELSE RemoveShared(valueSynonyms, otherSynonyms, Tail(valueSynonymsClone),
                              otherSynonymsClone)

\* The loop over the keys at 160-175 for the value at position v, from key k on
RECURSIVE RemoveFromOthers(_, _, _, _)
RemoveFromOthers(synonyms, v, valueSynonymsClone, k) ==
    IF k > Len(synonyms) THEN synonyms
    ELSE IF k = v THEN RemoveFromOthers(synonyms, v, valueSynonymsClone, k + 1)
    ELSE LET pair == RemoveShared(synonyms[v][2], synonyms[k][2], valueSynonymsClone,
                                  synonyms[k][2])
         IN RemoveFromOthers([synonyms EXCEPT ![v] = <<synonyms[v][1], pair[1]>>,
                                              ![k] = <<synonyms[k][1], pair[2]>>],
                             v, valueSynonymsClone, k + 1)

\* The loop over i at 156-177: the value is looked up as it was passed, not trimmed
RECURSIVE RemoveDuplicates(_, _)
RemoveDuplicates(synonyms, values) ==
    IF values = <<>> THEN synonyms
    ELSE LET v == KeyIndex(synonyms, Head(values))
         IN RemoveDuplicates(IF v # 0
                             THEN RemoveFromOthers(synonyms, v, synonyms[v][2], 1)
                             ELSE synonyms,
                             Tail(values))

\* array.join(SEPARATOR)
RECURSIVE Join(_)
Join(list) ==
    IF list = <<>> THEN <<>>
    ELSE IF Len(list) = 1 THEN list[1]
    ELSE list[1] \o <<SEPARATOR>> \o Join(Tail(list))

\* Variant: the list of the key is joined even when it is empty.
ResultOfAlwaysJoined(synonyms, key) ==
    IF KeyIndex(synonyms, key) # 0
    THEN Join(synonyms[KeyIndex(synonyms, key)][2])
    ELSE <<>>

\* The string pushed to results for one key (182-188)
ResultOf(synonyms, key) ==
    IF KeyIndex(synonyms, key) # 0 /\ synonyms[KeyIndex(synonyms, key)][2] # <<>>
    THEN Join(synonyms[KeyIndex(synonyms, key)][2])
    ELSE key

\* The loop at 181-189 over the values from position n on
RECURSIVE Results(_, _, _)
Results(synonyms, values, n) ==
    IF n > Len(values) THEN <<>>
    ELSE <<ResultOf(synonyms, Trim(values[n]))>> \o Results(synonyms, values, n + 1)

\* generateSynonyms(values, mainCallback): the results passed to the callback
GenerateSynonyms(values) ==
    Results(RemoveDuplicates(FindAllSynonyms(<<>>, values), values), values, 1)

\* ------------------------------------------------------------------------
\* selectQuestions
\* ------------------------------------------------------------------------
\* Variant: the round length without the clamp to the corpus size.
ClampGameLengthNoClamp(n) == QUESTIONS_PER_GAME

\* if (gameLength > questions.length) gameLength = questions.length
ClampGameLength(n) == IF QUESTIONS_PER_GAME > n THEN n ELSE QUESTIONS_PER_GAME

\* the history the search avoids: sliced when it is over the cap or covers the corpus
TrimHistory(h, n, len) ==
    IF Len(h) > MAX_PREVIOUS_QUESTIONS \/ Len(h) >= n
    THEN SliceFrom(h, len)
    ELSE h

\* Variants: the test with one of its two conjuncts left out.
AcceptableIgnoringSelected(index) == index \notin Range(prevLocal)

AcceptableIgnoringHistory(index) == index \notin Range(selected)

\* selected.indexOf(index) === -1 && previousQuestions.indexOf(index) === -1
Acceptable(index) == index \notin Range(selected) /\ index \notin Range(prevLocal)

\* Variant: a search that never gives up.
SearchOpenAlways == TRUE

\* while (checked.length !== questions.length)
SearchOpen == Cardinality(checked) # questionsLength

\* utils.getRandomNumber(0, questions.length - 1).  Under drawOrder "every" each
\* index can be drawn; under "lowest" the draw is the lowest acceptable index
\* or, when no index is acceptable, the lowest index not yet in checked.
Lowest(S) == IF S = {} THEN {} ELSE {CHOOSE x \in S : \A y \in S : x <= y}

RandomIndexes ==
    IF drawOrder = "every"
    THEN 0..(questionsLength - 1)
    ELSE IF \E x \in 0..(questionsLength - 1) : Acceptable(x)
    THEN Lowest({x \in 0..(questionsLength - 1) : Acceptable(x)})
    ELSE Lowest({x \in 0..(questionsLength - 1) : x \notin checked})

RoundLimit == IF questionsLength <= MaxN THEN MaxRounds ELSE MaxBigRounds

\* Entry of selectQuestions up to the search loop (index.js 197-221).
SelectQuestionsEnter ==
    /\ gameLength' = ClampGameLength(questionsLength)
    /\ prevLocal' = TrimHistory(previousQuestions, questionsLength,
                                ClampGameLength(questionsLength))
    /\ selected' = <<>>
    /\ checked' = {}
    /\ i' = 0
    /\ previousIndex' = 0
    /\ draws' = 0
    /\ repeats' = 0
    /\ selpc' = "loop"
    /\ rounds' = rounds + 1
    /\ UNCHANGED <<questionsLength, previousQuestions, drawOrder>>

\* A round is requested (mainIntent on the first call, playAgainYesIntent later).
SelectQuestionsCall ==
    /\ selpc \in {"idle", "done"}
    /\ rounds < RoundLimit
    /\ SelectQuestionsEnter
    /\ UNCHANGED <<sessVars, shufVars, utilVars>>

\* One pass of the inner loop in which the drawn index is accepted.
SelDrawAccept ==
    /\ selpc = "loop"
    /\ i < gameLength
    /\ SearchOpen
    /\ \E index \in RandomIndexes :
        /\ Acceptable(index)
        /\ selected' = Append(selected, index)
    /\ i' = i + 1
    /\ draws' = draws + 1
    /\ UNCHANGED <<drawOrder, questionsLength, gameLength, previousQuestions, prevLocal, checked,
                   previousIndex, selpc, repeats, rounds, sessVars, shufVars, utilVars>>

\* One pass of the inner loop in which the drawn index is rejected and recorded.
SelDrawReject ==
    /\ selpc = "loop"
    /\ i < gameLength
    /\ SearchOpen
    /\ \E index \in RandomIndexes :
        /\ ~Acceptable(index)
        /\ index \notin checked
        /\ checked' = checked \cup {index}
    /\ draws' = draws + 1
    /\ UNCHANGED <<drawOrder, questionsLength, gameLength, previousQuestions, prevLocal, selected,
                   i, previousIndex, selpc, repeats, rounds, sessVars, shufVars, utilVars>>

\* One pass of the inner loop in which the drawn index was rejected before.
SelDrawRepeat ==
    /\ selpc = "loop"
    /\ i < gameLength
    /\ SearchOpen
    /\ repeats < MaxRepeats
    /\ \E index \in RandomIndexes :
        /\ ~Acceptable(index)
        /\ index \in checked
    /\ draws' = draws + 1
    /\ repeats' = repeats + 1
    /\ UNCHANGED <<drawOrder, questionsLength, gameLength, previousQuestions, prevLocal, selected,
                   checked, i, previousIndex, selpc, rounds, sessVars, shufVars, utilVars>>

\* if (!found) selected.push(previousQuestions[previousIndex++])
SelReuse ==
    /\ selpc = "loop"
    /\ i < gameLength
    /\ ~SearchOpen
    /\ selected' = Append(selected, At(prevLocal, previousIndex))
    /\ previousIndex' = previousIndex + 1
    /\ i' = i + 1
    /\ UNCHANGED <<drawOrder, questionsLength, gameLength, previousQuestions, prevLocal, checked,
                   selpc, draws, repeats, rounds, sessVars, shufVars, utilVars>>

\* The loop is left: the history is extended, stored and `selected` returned.
SelReturn ==
    /\ selpc = "loop"
    /\ ~(i < gameLength)
    /\ previousQuestions' = prevLocal \o selected
    /\ selpc' = "done"
    /\ UNCHANGED <<drawOrder, questionsLength, gameLength, prevLocal, selected, checked, i,
                   previousIndex, draws, repeats, rounds, sessVars, shufVars, utilVars>>

\* ------------------------------------------------------------------------
\* The corpus loaded from the database (data/questions, data/answers)
\* ------------------------------------------------------------------------
Questions == <<"q0", "q1", "q2", "q3", "q4">>

Answers == <<
    <<"True", "False">>,
    <<"Paris|City of Light", "London", "Berlin">>,
    <<"false", "true">>,
    <<"Mars|Red Planet", "Venus">>,
    <<"Blue whale|Whale", "Elephant", "Elephant seal">> >>

\* questions[index] and answers[index]; "" and <<>> stand for undefined
QuestionAt(index) ==
    IF index >= 0 /\ index < Len(Questions) THEN Questions[index + 1] ELSE ""

AnswersIn(answers, index) ==
    IF index >= 0 /\ index < Len(answers) THEN answers[index + 1] ELSE <<>>

AnswersAt(index) == AnswersIn(Answers, index)

\* A corpus in which the answer sets of q1 and q3 have fewer than two entries
ShortAnswers == <<
    <<"True", "False">>,
    <<"Paris">>,
    <<"false", "true">>,
    <<>>,
    <<"Blue whale|Whale", "Elephant", "Elephant seal">> >>

\* every answer string of the corpus
AllAnswers == UNION {Range(Answers[q]) : q \in 1..Len(Answers)}

\* What the user says
RawInputs == {"Paris", "londan", "elephant seals", "venus", "xyzzy"}

\* Raw inputs of the turns followed with their requests, and the values of the
\* argument `answer` the intent layer can hand to answerIntent
MatchInputs == RawInputs \cup {"Elephant seal"}
AnswerChoices == {"Whale", "Elephant", "big whale", "London"}
Phrases == MatchInputs \cup AnswerChoices

\* clonedAnswers[index] pushed when clonedAnswers is empty
UndefinedAnswer == "undefined"

\* The characters of the strings above
Text ==
    "True" :> <<"T", "r", "u", "e">> @@
    "False" :> <<"F", "a", "l", "s", "e">> @@
    "Paris|City of Light" :> <<"P", "a", "r", "i", "s", "|", "C", "i", "t", "y", " ", "o", "f", " ", "L", "i", "g", "h", "t">> @@
    "London" :> <<"L", "o", "n", "d", "o", "n">> @@
    "Berlin" :> <<"B", "e", "r", "l", "i", "n">> @@
    "false" :> <<"f", "a", "l", "s", "e">> @@
    "true" :> <<"t", "r", "u", "e">> @@
    "Mars|Red Planet" :> <<"M", "a", "r", "s", "|", "R", "e", "d", " ", "P", "l", "a", "n", "e", "t">> @@
    "Venus" :> <<"V", "e", "n", "u", "s">> @@
    "Blue whale|Whale" :> <<"B", "l", "u", "e", " ", "w", "h", "a", "l", "e", "|", "W", "h", "a", "l", "e">> @@
    "Elephant" :> <<"E", "l", "e", "p", "h", "a", "n", "t">> @@
    "Elephant seal" :> <<"E", "l", "e", "p", "h", "a", "n", "t", " ", "s", "e", "a", "l">> @@
    "Whale" :> <<"W", "h", "a", "l", "e">> @@
    "big whale" :> <<"b", "i", "g", " ", "w", "h", "a", "l", "e">> @@
    "Paris" :> <<"P", "a", "r", "i", "s">> @@
    "londan" :> <<"l", "o", "n", "d", "a", "n">> @@
    "elephant seals" :> <<"e", "l", "e", "p", "h", "a", "n", "t", " ", "s", "e", "a", "l", "s">> @@
    "venus" :> <<"v", "e", "n", "u", "s">> @@
    "xyzzy" :> <<"x", "y", "z", "z", "y">> @@
    "undefined" :> <<"u", "n", "d", "e", "f", "i", "n", "e", "d">>

Chars(string) == Text[string]

\* data/dictionary: the synonyms of every answer of the corpus, in lower case
Dictionary == UNION {{ToLowerCase(syn) : syn \in Range(GetSynonyms(Chars(answer)))} :
                     answer \in AllAnswers}

\* the raw inputs with an entry at data/dictionary/<raw input in lower case>
DictionaryEntries ==
    UNION {IF ToLowerCase(Chars(rawInput)) \in Dictionary THEN {rawInput} ELSE {} :
           rawInput \in MatchInputs}

\* ------------------------------------------------------------------------
\* selectAnswers and isTrueFalseQuestion
\* ------------------------------------------------------------------------
\* array.splice(index, 1), index 0-based
Splice(s, index) == [k \in 1..(Len(s) - 1) |-> IF k <= index THEN s[k] ELSE s[k + 1]]

\* The loop of selectAnswers from position pos on: every list it can build.
RECURSIVE SelectAnswersLoop(_, _, _, _, _)
SelectAnswersLoop(pos, correctIndex, answers, clonedAnswers, acc) ==
    IF ~(pos < Len(answers)) THEN {acc}
    ELSE IF pos = correctIndex
    THEN SelectAnswersLoop(pos + 1, correctIndex, answers, clonedAnswers,
                           Append(acc, answers[1]))
    ELSE IF clonedAnswers = <<>>
    THEN SelectAnswersLoop(pos + 1, correctIndex, answers, clonedAnswers,
                           Append(acc, UndefinedAnswer))
    ELSE UNION {SelectAnswersLoop(pos + 1, correctIndex, answers,
                                  Splice(clonedAnswers, index),
                                  Append(acc, clonedAnswers[index + 1])) :
                index \in 0..(Len(clonedAnswers) - 1)}

\* Variant: the loop without clonedAnswers.splice(index, 1).
RECURSIVE SelectAnswersLoopNoSplice(_, _, _, _, _)
SelectAnswersLoopNoSplice(pos, correctIndex, answers, clonedAnswers, acc) ==
    IF ~(pos < Len(answers)) THEN {acc}
    ELSE IF pos = correctIndex
    THEN SelectAnswersLoopNoSplice(pos + 1, correctIndex, answers, clonedAnswers,
                                   Append(acc, answers[1]))
    ELSE UNION {SelectAnswersLoopNoSplice(pos + 1, correctIndex, answers, clonedAnswers,
                                          Append(acc, clonedAnswers[index + 1])) :
                index \in 0..(Len(clonedAnswers) - 1)}

SelectAnswersNoSplice(correctIndex, answers) ==
    IF Len(answers) > 1
    THEN SelectAnswersLoopNoSplice(0, correctIndex, answers, Tail(answers), <<>>)
    ELSE {<<>>}

\* Variant: one answer is enough for a question.
SelectAnswersOfOne(correctIndex, answers) ==
    IF Len(answers) > 0
    THEN SelectAnswersLoop(0, correctIndex, answers, Tail(answers), <<>>)
    ELSE {<<>>}

\* selectAnswers(correctIndex, answers): the lists it can return; <<>> is null
SelectAnswers(correctIndex, answers) ==
    IF Len(answers) > 1
    THEN SelectAnswersLoop(0, correctIndex, answers, Tail(answers), <<>>)
    ELSE {<<>>}

\* Variant: no question is taken for a true/false question.
IsTrueFalseQuestionNever(answers) == FALSE

\* isTrueFalseQuestion(answers)
IsTrueFalseQuestion(answers) ==
    /\ Len(answers) = 2
    /\ GetSynonyms(Chars(answers[1])) # <<>> /\ GetSynonyms(Chars(answers[1]))[1] # <<>>
    /\ GetSynonyms(Chars(answers[2])) # <<>> /\ GetSynonyms(Chars(answers[2]))[1] # <<>>
    /\ IsTrueFalse(<<ToLowerCase(GetSynonyms(Chars(answers[1]))[1]),
                     ToLowerCase(GetSynonyms(Chars(answers[2]))[1])>>)

\* isTrueFalseQuestion evaluated once for every pair of answers of the corpus
AnswerPairs == (AllAnswers \cup {UndefinedAnswer}) \X (AllAnswers \cup {UndefinedAnswer})

TrueFalsePairs == UNION {IF IsTrueFalseQuestion(p) THEN {p} ELSE {} : p \in AnswerPairs}

IsTrueFalseQuestionOf(answers) ==
    IF answers \in AnswerPairs THEN answers \in TrueFalsePairs
    ELSE IsTrueFalseQuestion(answers)

\* Variant: the index recorded as correct is one past the position of the
\* correct answer.
PresentAnswersOneBased(questionAnswers) ==
    IF IsTrueFalseQuestionOf(questionAnswers)
    THEN {[selectedAnswers |-> questionAnswers, correctIndex |-> 1]}
    ELSE UNION {{[selectedAnswers |-> sel, correctIndex |-> c + 1] :
                    sel \in SelectAnswers(c, questionAnswers)} :
                c \in 0..(IF Len(questionAnswers) > 1 THEN Len(questionAnswers) - 1 ELSE 0)}

\* The answers presented for a question and the index recorded as correct:
\* every pair startNewRound and nextQuestion can compute (index.js 302-310, 654-662).
PresentAnswers(questionAnswers) ==
    IF IsTrueFalseQuestionOf(questionAnswers)
    THEN {[selectedAnswers |-> questionAnswers, correctIndex |-> 0]}
    ELSE UNION {{[selectedAnswers |-> sel, correctIndex |-> c] :
                    sel \in SelectAnswers(c, questionAnswers)} :
                c \in 0..(IF Len(questionAnswers) > 1 THEN Len(questionAnswers) - 1 ELSE 0)}

\* PresentAnswers evaluated once for every answer set of the corpus
Presentations ==
    {<<questionAnswers, PresentAnswers(questionAnswers)>> : questionAnswers \in Range(Answers)}

PresentAnswersOf(questionAnswers) ==
    IF questionAnswers \in Range(Answers)
    THEN (CHOOSE p \in Presentations : p[1] = questionAnswers)[2]
    ELSE PresentAnswers(questionAnswers)

\* ------------------------------------------------------------------------
\* Turn handlers.  A handler is an operator from app.data and the request to
\* the set of outcomes it can produce: the new app.data, the response
\* ("ask", "tell", or "none" when it returns without responding), the contexts
\* set, whether persistScore was called, and the branch it took.
\* ------------------------------------------------------------------------
PLAY_AGAIN_CONTEXT == "restart"
DONE_CONTEXT == "quit"
TRUE_FALSE_CONTEXT == "true_false"

\* app.data of a new conversation: every field undefined
InitData ==
    [sessionQuestions |-> <<>>, selectedAnswers |-> <<>>, correctAnswer |-> Undefined,
     sessionAnswers |-> <<>>, questionPrompt |-> "", score |-> Undefined,
     currentQuestion |-> Undefined, gameLength |-> Undefined,
     fallbackCount |-> Undefined, correct |-> FALSE, rawInput |-> ""]

\* JavaScript truthiness of a number held in `number` or `choice`
Truthy(number) == number # Undefined /\ number # 0

\* askQuestion(ssmlResponse, question, answers)
AskQuestion(question, answers) ==
    IF question = "" \/ answers = <<>>
    THEN [response |-> "none", contexts |-> {}]
    ELSE [response |-> "ask",
          contexts |-> IF IsTrueFalseQuestionOf(answers) THEN {TRUE_FALSE_CONTEXT} ELSE {}]

\* isValidAnswer(answer, answers)
IsValidAnswer(answer, answers) ==
    Truthy(answer) /\ answer < (Len(answers) + 1) /\ answer > 0

\* sessionQuestions[k] and sessionAnswers[k]; "" and <<>> stand for undefined
PromptAt(sessionQuestions, k) ==
    IF k >= 0 /\ k < Len(sessionQuestions) THEN sessionQuestions[k + 1] ELSE ""

AnswerSetAt(sessionAnswers, k) ==
    IF k >= 0 /\ k < Len(sessionAnswers) THEN sessionAnswers[k + 1] ELSE <<>>

\* Variant: moving to the next question loses the score.
AdvanceResettingScore(d, currentQuestion, shown) ==
    [d EXCEPT !.selectedAnswers = shown.selectedAnswers,
              !.correctAnswer = shown.correctIndex,
              !.questionPrompt = PromptAt(d.sessionQuestions, currentQuestion),
              !.fallbackCount = 0,
              !.currentQuestion = currentQuestion,
              !.score = 0]

\* Variant: the stored question index is one past the question asked.
AdvancePastQuestion(d, currentQuestion, shown) ==
    [d EXCEPT !.selectedAnswers = shown.selectedAnswers,
              !.correctAnswer = shown.correctIndex,
              !.questionPrompt = PromptAt(d.sessionQuestions, currentQuestion),
              !.fallbackCount = 0,
              !.currentQuestion = currentQuestion + 1,
              !.score = d.score]

\* The state nextQuestion stores when it moves to question currentQuestion
\* (index.js 663-669).
Advance(d, currentQuestion, shown) ==
    [d EXCEPT !.selectedAnswers = shown.selectedAnswers,
              !.correctAnswer = shown.correctIndex,
              !.questionPrompt = PromptAt(d.sessionQuestions, currentQuestion),
              !.fallbackCount = 0,
              !.currentQuestion = currentQuestion,
              !.score = d.score]

\* Variant: the round is finalized without persistScore().
FinalizeRoundWithoutPersist(d) ==
    {[data |-> d, response |-> "ask", contexts |-> {PLAY_AGAIN_CONTEXT}, persist |-> FALSE]}

\* nextQuestion on the last question (index.js 616-638): the play-again
\* context, app.ask and persistScore()
FinalizeRound(d) ==
    {[data |-> d, response |-> "ask", contexts |-> {PLAY_AGAIN_CONTEXT}, persist |-> TRUE]}

\* nextQuestion(app, ssmlResponse)
NextQuestion(d) ==
    IF d.currentQuestion = d.gameLength - 1
    THEN FinalizeRound(d)
    ELSE LET currentQuestion == d.currentQuestion + 1
             selectedQuestionAnswers == AnswerSetAt(d.sessionAnswers, currentQuestion)
         IN {IF shown.selectedAnswers # <<>>
             THEN LET asked == AskQuestion(PromptAt(d.sessionQuestions, currentQuestion),
                                           shown.selectedAnswers)
                  IN [data |-> Advance(d, currentQuestion, shown),
                      response |-> asked.response, contexts |-> asked.contexts,
                      persist |-> FALSE]
             ELSE [data |-> d, response |-> "tell", contexts |-> {}, persist |-> FALSE] :
             shown \in PresentAnswersOf(selectedQuestionAnswers)}

\* Variant: the third tier offers to quit again instead of ending the session.
HandleNonDictionaryInputNeverEnds(d) ==
    IF d.fallbackCount = 1
    THEN [data |-> d, response |-> "ask", contexts |-> {}, persist |-> FALSE]
    ELSE [data |-> d, response |-> "ask", contexts |-> {DONE_CONTEXT}, persist |-> FALSE]

\* Variant: a fallback loses the score of the round.
HandleNonDictionaryInputLosingScore(d) ==
    IF d.fallbackCount = 1
    THEN [data |-> [d EXCEPT !.score = 0], response |-> "ask", contexts |-> {},
          persist |-> FALSE]
    ELSE IF d.fallbackCount = 2
    THEN [data |-> [d EXCEPT !.score = 0], response |-> "ask", contexts |-> {DONE_CONTEXT},
          persist |-> FALSE]
    ELSE [data |-> d, response |-> "tell", contexts |-> {}, persist |-> FALSE]

\* handleNonDictionaryInput: the prompt tier chosen by the fallback count
HandleNonDictionaryInput(d) ==
    IF d.fallbackCount = 1
    THEN [data |-> d, response |-> "ask", contexts |-> {}, persist |-> FALSE]
    ELSE IF d.fallbackCount = 2
    THEN [data |-> d, response |-> "ask", contexts |-> {DONE_CONTEXT}, persist |-> FALSE]
    ELSE [data |-> d, response |-> "tell", contexts |-> {}, persist |-> FALSE]

\* handleDictionaryInput
HandleDictionaryInput(d) == NextQuestion([d EXCEPT !.correct = FALSE])

\* The answers of the database read of data/dictionary/<raw input in lower case>:
\* the entry when there is one, none, or an error.
DictionaryReads(rawInput) ==
    (IF rawInput \in DictionaryEntries THEN {"value"} ELSE {"empty"}) \cup {"error"}

\* The calls of app.ask and app.tell behind a response
Responses(r) == IF r = "none" THEN 0 ELSE 1

Tag(outcomes, branch, scored, how) ==
    {[data |-> o.data, response |-> o.response, contexts |-> o.contexts,
      persist |-> o.persist, branch |-> branch, scored |-> scored, how |-> how,
      number |-> Undefined, rawInput |-> "", argument |-> Undefined,
      responses |-> Responses(o.response)] :
     o \in outcomes}

\* The outcomes of a turn scored for the answer number
Scored(outcomes, scored, how, number) ==
    {[o EXCEPT !.number = number] : o \in Tag(outcomes, "answer", scored, how)}

\* The request: raw input and the arguments number, any and ordinal of the intent
\* (Undefined when absent).
NoArguments == [number |-> Undefined, any |-> Undefined, ordinal |-> Undefined]

\* valueIntent 699-707: some synonym of the answer equals the raw input
AnswerEquals(answer, rawInput) ==
    \E syn \in Range(GetSynonyms(Chars(answer))) : CompareStrings(syn, Chars(rawInput))

\* unknownIntent 848-870: some synonym of the answer matches the raw input
\* fuzzily, or equals one of its words
PartialMatch(syn, rawInput) ==
    \E part \in Range(Split(Trim(rawInput), SPACE)) : CompareStrings(part, syn)

SynonymMatches(syn, rawInput) ==
    FuzzyMatch(syn, Trim(rawInput)) \/ PartialMatch(syn, rawInput)

AnswerMatches(answer, rawInput) ==
    \E syn \in Range(GetSynonyms(Chars(answer))) : SynonymMatches(syn, Chars(rawInput))

\* which of the two matched on the first matching synonym
MatchKind(answer, rawInput) ==
    LET syns == GetSynonyms(Chars(answer))
        j == CHOOSE k \in 1..Len(syns) :
                /\ SynonymMatches(syns[k], Chars(rawInput))
                /\ \A m \in 1..(k - 1) : ~SynonymMatches(syns[m], Chars(rawInput))
    IN IF FuzzyMatch(syns[j], Trim(Chars(rawInput))) THEN "fuzzy" ELSE "partial"

\* The comparisons above evaluated once for every answer of the corpus and
\* every raw input.
Comparisons == (AllAnswers \cup {UndefinedAnswer}) \X Phrases

EqualComparisons ==
    UNION {IF AnswerEquals(p[1], p[2]) THEN {p} ELSE {} : p \in Comparisons}

MatchComparisons ==
    UNION {IF AnswerMatches(p[1], p[2]) THEN {p} ELSE {} : p \in Comparisons}

MatchKinds == {<<p, MatchKind(p[1], p[2])>> : p \in MatchComparisons}

AnswerEqualsOf(answer, rawInput) ==
    IF <<answer, rawInput>> \in Comparisons THEN <<answer, rawInput>> \in EqualComparisons
    ELSE AnswerEquals(answer, rawInput)

AnswerMatchesOf(answer, rawInput) ==
    IF <<answer, rawInput>> \in Comparisons THEN <<answer, rawInput>> \in MatchComparisons
    ELSE AnswerMatches(answer, rawInput)

MatchKindOf(answer, rawInput) ==
    IF <<answer, rawInput>> \in MatchComparisons
    THEN (CHOOSE p \in MatchKinds : p[1] = <<answer, rawInput>>)[2]
    ELSE MatchKind(answer, rawInput)

\* valueIntent 697-713: the first presented answer with a synonym equal to the
\* raw input (1-based), or Undefined
RawInputNumber(selectedAnswers, rawInput) ==
    LET hits == {n \in 1..Len(selectedAnswers) : AnswerEqualsOf(selectedAnswers[n], rawInput)}
    IN IF hits = {} THEN Undefined ELSE CHOOSE n \in hits : \A m \in hits : n <= m

\* unknownIntent 846-872: the presented answers with a matching synonym
MatchingAnswers(selectedAnswers, rawInput) ==
    {n \in 1..Len(selectedAnswers) : AnswerMatchesOf(selectedAnswers[n], rawInput)}

RECURSIVE ValueIntent(_, _, _, _, _, _)

\* unknownIntent(app, otherIntentTriggered)
UnknownIntent(d, rawInput, arguments, otherIntentTriggered) ==
    LET fallbackCount ==
            (IF d.fallbackCount = Undefined THEN 0 ELSE d.fallbackCount) + 1
        d1 == [d EXCEPT !.fallbackCount = fallbackCount]
        matching == MatchingAnswers(d.selectedAnswers, rawInput)
    IN IF ~otherIntentTriggered /\ d.selectedAnswers # <<>> /\ matching # {}
       THEN LET n == CHOOSE x \in matching : \A y \in matching : x <= y
            IN {[o EXCEPT !.how = IF o.how = "choice"
                                  THEN MatchKindOf(d.selectedAnswers[n], rawInput)
                                  ELSE o.how] :
                o \in ValueIntent(d1, rawInput, n, arguments, FALSE, FALSE)}
       ELSE UNION {IF read = "value"
                   THEN Tag(HandleDictionaryInput(d1), "dictionary", "none", "none")
                   ELSE Tag({HandleNonDictionaryInput(d1)}, "unresolved", "none", "none") :
                   read \in DictionaryReads(rawInput)}

\* if (!number) { number = other; }
OrElse(number, other) == IF Truthy(number) THEN number ELSE other

\* valueIntent 739-781: the answer `number` is scored, or handed to unknownIntent
\* when it is not the number of a presented answer
ScoreAnswer(d, rawInput, arguments, number, how) ==
    IF IsValidAnswer(number, d.selectedAnswers)
    THEN Scored(NextQuestion(IF d.correctAnswer + 1 = number
                             THEN [d EXCEPT !.correct = TRUE, !.score = d.score + 1]
                             ELSE [d EXCEPT !.correct = FALSE]),
                IF d.correctAnswer + 1 = number THEN "right" ELSE "wrong", how, number)
    ELSE UnknownIntent(d, rawInput, arguments, TRUE)

\* Variant: the arguments are read before the raw input is compared.
GuessNumberArgumentsFirst(d, rawInput, choice, arguments, last, middle, fromRaw) ==
    LET n3 == OrElse(OrElse(OrElse(arguments.number, arguments.any), arguments.ordinal),
                     fromRaw)
        n5 == OrElse(OrElse(n3, IF last THEN Len(d.selectedAnswers) ELSE Undefined),
                     IF middle THEN (Len(d.selectedAnswers) \div 2) + 1 ELSE Undefined)
    IN ScoreAnswer(d, rawInput, arguments, OrElse(n5, choice), "argument")

\* valueIntent 717-736: the number guessed from the arguments, the flags and the
\* choice once the raw input was compared with the answers
GuessNumber(d, rawInput, choice, arguments, last, middle, fromRaw) ==
    LET n3 == OrElse(OrElse(OrElse(fromRaw, arguments.number), arguments.any),
                     arguments.ordinal)
        n5 == OrElse(OrElse(n3, IF last THEN Len(d.selectedAnswers) ELSE Undefined),
                     IF middle THEN (Len(d.selectedAnswers) \div 2) + 1 ELSE Undefined)
        how == IF Truthy(fromRaw) THEN "exact"
               ELSE IF Truthy(n3) THEN "argument"
               ELSE IF Truthy(n5) THEN "shortcut"
               ELSE "choice"
    IN ScoreAnswer(d, rawInput, arguments, OrElse(n5, choice), how)

\* valueIntent(app, choice, ssml); last and middle are the flags set by
\* lastIntent and middleIntent
ValueIntent(d, rawInput, choice, arguments, last, middle) ==
    GuessNumber(d, rawInput, choice, arguments, last, middle,
                IF ~Truthy(choice) THEN RawInputNumber(d.selectedAnswers, rawInput)
                ELSE Undefined)

\* ------------------------------------------------------------------------
\* Requests of one user, one at a time
\* ------------------------------------------------------------------------
\* The numbers the intent layer can extract from what the user says
MaxArgument == 4
ArgumentValues == 1..MaxArgument

Arguments ==
    {NoArguments}
    \cup {[NoArguments EXCEPT !.number = n] : n \in ArgumentValues}
    \cup {[NoArguments EXCEPT !.any = n] : n \in {1, MaxArgument}}
    \cup {[NoArguments EXCEPT !.ordinal = n] : n \in {1, MaxArgument}}

\* Answers given after the last question of a round was answered
MaxOverrun == 1
\* Largest fallbackCount followed
MaxFallbackCount == 4

\* The arguments number, any and ordinal as valueIntent reads them: the first
\* that is set
ExplicitArgument(arguments) ==
    IF Truthy(arguments.number) THEN arguments.number
    ELSE IF Truthy(arguments.any) THEN arguments.any
    ELSE arguments.ordinal

\* The request of a turn recorded with its outcome
Request(rawInput, arguments, o) ==
    [o EXCEPT !.rawInput = rawInput, !.argument = ExplicitArgument(arguments)]

NoTurn == [intent |-> "none", branch |-> "none", scored |-> "none", how |-> "none",
           number |-> Undefined, rawInput |-> "", argument |-> Undefined,
           persist |-> FALSE, responses |-> 0]
NoTally == [right |-> 0, wrong |-> 0, other |-> 0, persisted |-> 0]

SessionIdle ==
    /\ data = InitData
    /\ response = "idle"
    /\ contexts = {}
    /\ turn = NoTurn
    /\ tally = NoTally

ShuffleIdle ==
    /\ shufAnswers = <<>>
    /\ shufIndex = 0
    /\ shufResult = <<>>

FuzzyIdle ==
    /\ fuzzyValue1 = <<>>
    /\ fuzzyValue2 = <<>>
    /\ fuzzyResult = <<>>

SynonymsIdle ==
    /\ synValues = <<>>
    /\ synResults = <<>>

\* No prompt was served yet: app.data.lastPrompt is undefined
PromptIdle ==
    /\ promptType = 0
    /\ prompt = <<>>
    /\ counter = 0
    /\ promptpc = "idle"
    /\ lastPrompt = <<>>
    /\ hasLastPrompt = FALSE
    /\ promptCalls = 0

\* No read of the database is followed
NoRead == [read |-> "none", state |-> "none"]

StoreIdle == store = NoRead

\* Sessions of one user that can finalize a round at the same time
MaxSessions == 2
Sessions == 1..MaxSessions

\* The user has no record yet: data.val() is null
NoRecord == [highestScore |-> Undefined, lowestScore |-> Undefined,
             averageScore |-> <<>>, totalScore |-> Undefined, scores |-> Undefined]

NotPersisting == [pc |-> "idle", score |-> Undefined, snapshot |-> NoRecord]

\* No round was persisted
ScoreIdle ==
    /\ user = NoRecord
    /\ persisting = [s \in Sessions |-> NotPersisting]
    /\ persistLog = [scores |-> <<>>, overlapped |-> FALSE]

\* Neither utility function has been called on its own.
UtilIdle ==
    /\ FuzzyIdle
    /\ SynonymsIdle
    /\ PromptIdle
    /\ StoreIdle
    /\ ScoreIdle

ConversationOpen == response = "ask"

\* Calls of persistScore counted in a round
MaxPersists == 2

Count(t, o) ==
    [right |-> t.right + (IF o.scored = "right" THEN 1 ELSE 0),
     wrong |-> t.wrong + (IF o.scored = "wrong" THEN 1 ELSE 0),
     other |-> IF o.scored = "none" THEN 1 ELSE t.other,
     persisted |-> IF o.persist /\ t.persisted < MaxPersists THEN t.persisted + 1
                   ELSE t.persisted]

\* The outcome o of a handler becomes the state after the turn.
Respond(intent, o) ==
    /\ o.data.fallbackCount <= MaxFallbackCount
    /\ Count(tally, o).right + Count(tally, o).wrong <= data.gameLength + MaxOverrun
    /\ data' = o.data
    /\ response' = o.response
    /\ contexts' = o.contexts
    /\ turn' = [intent |-> intent, branch |-> o.branch, scored |-> o.scored, how |-> o.how,
                number |-> o.number, rawInput |-> o.rawInput, argument |-> o.argument,
                persist |-> o.persist, responses |-> o.responses]
    /\ tally' = Count(tally, o)
    /\ UNCHANGED <<selVars, shufVars, utilVars>>

\* mainIntent of a new conversation, up to the call of selectQuestions
MainIntent ==
    /\ response \in {"idle", "tell", "none"}
    /\ selpc \in {"idle", "done"}
    /\ rounds < MaxSessionRounds
    /\ SelectQuestionsEnter
    /\ data' = InitData
    /\ response' = "pending"
    /\ contexts' = {}
    /\ turn' = [NoTurn EXCEPT !.intent = "main"]
    /\ tally' = NoTally
    /\ UNCHANGED <<shufVars, utilVars>>

\* playAgainYesIntent (game.restart.yes and game.restart), up to selectQuestions
PlayAgainYesIntent ==
    /\ ConversationOpen
    /\ rounds < MaxSessionRounds
    /\ SelectQuestionsEnter
    /\ response' = "pending"
    /\ contexts' = {}
    /\ turn' = [NoTurn EXCEPT !.intent = "playAgainYes"]
    /\ tally' = NoTally
    /\ UNCHANGED <<data, shufVars, utilVars>>

\* Variant: the new round goes on with the score of the last one.
NewRoundKeepingScore(d, questions, length, shown) ==
    [d EXCEPT
        !.sessionQuestions = [k \in 1..Len(questions) |-> QuestionAt(questions[k])],
        !.selectedAnswers = shown.selectedAnswers,
        !.correctAnswer = shown.correctIndex,
        !.sessionAnswers = [k \in 1..Len(questions) |-> AnswersAt(questions[k])],
        !.questionPrompt = QuestionAt(At(questions, 0)),
        !.currentQuestion = 0,
        !.gameLength = length,
        !.fallbackCount = 0]

\* startNewRound 329-340: the session data of a new round
NewRound(d, questions, length, shown) ==
    [d EXCEPT
        !.sessionQuestions = [k \in 1..Len(questions) |-> QuestionAt(questions[k])],
        !.selectedAnswers = shown.selectedAnswers,
        !.correctAnswer = shown.correctIndex,
        !.sessionAnswers = [k \in 1..Len(questions) |-> AnswersAt(questions[k])],
        !.questionPrompt = QuestionAt(At(questions, 0)),
        !.score = 0,
        !.currentQuestion = 0,
        !.gameLength = length,
        !.fallbackCount = 0]

\* startNewRound after selectQuestions returned (index.js 298-343) and the
\* callback of mainIntent or playAgainYesIntent
StartNewRoundWith(answers) ==
    /\ response = "pending"
    /\ selpc = "done"
    /\ \E shown \in PresentAnswersOf(AnswersIn(answers, At(selected, 0))) :
        IF shown.selectedAnswers # <<>>
        THEN LET asked == AskQuestion(QuestionAt(At(selected, 0)), shown.selectedAnswers)
             IN /\ data' = [NewRound(data, selected, gameLength, shown) EXCEPT
                               !.sessionAnswers =
                                   [k \in 1..Len(selected) |-> AnswersIn(answers, selected[k])]]
                /\ response' = asked.response
                /\ contexts' = asked.contexts
                /\ turn' = [turn EXCEPT !.branch = "started",
                                        !.responses = Responses(asked.response)]
        ELSE /\ data' = [data EXCEPT !.fallbackCount = 0]
             /\ response' = "tell"
             /\ contexts' = {}
             /\ turn' = [turn EXCEPT !.branch = "failed", !.responses = 1]
    /\ selpc' = "idle"
    /\ UNCHANGED <<drawOrder, questionsLength, gameLength, previousQuestions, prevLocal,
                   selected, checked, i, previousIndex, draws, repeats, rounds, tally,
                   shufVars, utilVars>>

StartNewRound == StartNewRoundWith(Answers)

\* startNewRound on the corpus with short answer sets
StartShortRound == StartNewRoundWith(ShortAnswers)

\* game.choice.value and game.choice.ordinal: valueIntent(app)
ValueIntentTurn ==
    /\ ConversationOpen
    /\ \E rawInput \in RawInputs, arguments \in Arguments :
        \E o \in ValueIntent(data, rawInput, Undefined, arguments, FALSE, FALSE) :
            Respond("value", o)

\* game.unknown: unknownIntent(app)
UnknownIntentTurn ==
    /\ ConversationOpen
    /\ \E rawInput \in RawInputs :
        \E o \in UnknownIntent(data, rawInput, NoArguments, FALSE) :
            Respond("unknown", o)

\* repeatIntent
RepeatIntent ==
    /\ ConversationOpen
    /\ LET asked == AskQuestion(data.questionPrompt, data.selectedAnswers)
       IN Respond("repeat",
                  [data |-> [data EXCEPT !.fallbackCount = 0],
                   response |-> asked.response, contexts |-> asked.contexts,
                   persist |-> FALSE, branch |-> "question", scored |-> "none",
                   how |-> "none", number |-> Undefined, rawInput |-> "",
                   argument |-> Undefined, responses |-> Responses(asked.response)])

\* playAgainNoIntent, quitIntent, doneYesIntent: the outro and app.tell
Goodbye(intent) ==
    Respond(intent, [data |-> data, response |-> "tell", contexts |-> {},
                     persist |-> FALSE, branch |-> "control", scored |-> "none",
                     how |-> "none", number |-> Undefined, rawInput |-> "",
                     argument |-> Undefined, responses |-> 1])

PlayAgainNoIntent == ConversationOpen /\ Goodbye("playAgainNo")

QuitIntent == ConversationOpen /\ Goodbye("quit")

HELP_CONTEXT == "help"

\* Variant: the pending question is asked again and fallbackCount is kept.
AskAgainKeepingFallbackCount(d) ==
    LET asked == AskQuestion(d.questionPrompt, d.selectedAnswers)
    IN [data |-> d,
        response |-> asked.response, contexts |-> asked.contexts,
        persist |-> FALSE, branch |-> "question", scored |-> "none", how |-> "none",
        number |-> Undefined, rawInput |-> "", argument |-> Undefined,
        responses |-> Responses(asked.response)]

\* fallbackCount = 0 followed by askQuestion of the pending question:
\* scoreIntent, answersIntent, hintIntent, disagreeIntent, mistakenIntent
AskAgain(d) ==
    LET asked == AskQuestion(d.questionPrompt, d.selectedAnswers)
    IN [data |-> [d EXCEPT !.fallbackCount = 0],
        response |-> asked.response, contexts |-> asked.contexts,
        persist |-> FALSE, branch |-> "question", scored |-> "none", how |-> "none",
        number |-> Undefined, rawInput |-> "", argument |-> Undefined,
        responses |-> Responses(asked.response)]

\* disagreeIntent
DisagreeIntent == ConversationOpen /\ Respond("disagree", AskAgain(data))

\* mistakenIntent
MistakenIntent == ConversationOpen /\ Respond("mistaken", AskAgain(data))

\* scoreIntent
ScoreIntent == ConversationOpen /\ Respond("score", AskAgain(data))

\* answersIntent
AnswersIntent == ConversationOpen /\ Respond("answers", AskAgain(data))

\* hintIntent
HintIntent == ConversationOpen /\ Respond("hint", AskAgain(data))

\* helpIntent
HelpIntent ==
    /\ ConversationOpen
    /\ Respond("help", [data |-> [data EXCEPT !.fallbackCount = 0],
                        response |-> "ask", contexts |-> {HELP_CONTEXT},
                        persist |-> FALSE, branch |-> "control", scored |-> "none",
                        how |-> "none", number |-> Undefined, rawInput |-> "",
                        argument |-> Undefined, responses |-> 1])

\* helpYesIntent (already in help context): askQuestion of the pending question
HelpYesIntent ==
    /\ ConversationOpen
    /\ HELP_CONTEXT \in contexts
    /\ Respond("helpYes", [AskAgain(data) EXCEPT !.data = data])

\* dontKnowIntent: the correct answer is said and nextQuestion is called
DontKnowIntent ==
    /\ ConversationOpen
    /\ \E o \in Tag(NextQuestion(data), "skip", "none", "none") : Respond("dontKnow", o)

\* lastIntent: last = true; valueIntent(app, null, null)
LastIntent ==
    /\ ConversationOpen
    /\ \E rawInput \in RawInputs :
        \E o \in ValueIntent(data, rawInput, Undefined, NoArguments, TRUE, FALSE) :
            Respond("last", o)

\* middleIntent: middle = true; valueIntent(app, null, null)
MiddleIntent ==
    /\ ConversationOpen
    /\ \E rawInput \in RawInputs :
        \E o \in ValueIntent(data, rawInput, Undefined, NoArguments, FALSE, TRUE) :
            Respond("middle", o)

\* synonyms[0] of a presented answer
FirstSynonym(answer) == GetSynonyms(Chars(answer))[1]

\* trueIntent, falseIntent and listIntent: the first presented answer whose
\* synonyms[0] equals choice (1-based), or 0
OptionNumber(selectedAnswers, choice) ==
    LET hits == {n \in 1..Len(selectedAnswers) :
                    /\ GetSynonyms(Chars(selectedAnswers[n])) # <<>>
                    /\ CompareStrings(FirstSynonym(selectedAnswers[n]), choice)}
    IN IF hits = {} THEN 0 ELSE CHOOSE n \in hits : \A m \in hits : n <= m

\* The key of the option of the list or of the chip shown for a presented answer
\* (askQuestion 524-560): synonyms[0].trim()
OptionKey(answer) == Trim(FirstSynonym(answer))

\* The choices a request of trueIntent, falseIntent or listIntent can carry for
\* the presented answers
ShortcutChoices(selectedAnswers) ==
    {TRUE_STRING, FALSE_STRING}
    \cup {OptionKey(selectedAnswers[n]) : n \in 1..Len(selectedAnswers)}

\* OptionNumber evaluated once for every list of answers that can be presented
PresentedLists ==
    UNION {{shown.selectedAnswers : shown \in PresentAnswers(questionAnswers)} :
           questionAnswers \in Range(Answers)}

OptionNumbers ==
    UNION {{<<selectedAnswers, choice, OptionNumber(selectedAnswers, choice)>> :
               choice \in ShortcutChoices(selectedAnswers)} :
           selectedAnswers \in PresentedLists}

OptionNumberOf(selectedAnswers, choice) ==
    IF selectedAnswers \in PresentedLists /\ choice \in ShortcutChoices(selectedAnswers)
    THEN (CHOOSE p \in OptionNumbers : p[1] = selectedAnswers /\ p[2] = choice)[3]
    ELSE OptionNumber(selectedAnswers, choice)

\* trueIntent: valueIntent(app, answer, null)
TrueIntent ==
    /\ ConversationOpen
    /\ \E rawInput \in RawInputs :
        \E o \in ValueIntent(data, rawInput, OptionNumberOf(data.selectedAnswers, TRUE_STRING),
                             NoArguments, FALSE, FALSE) :
            Respond("true", o)

\* falseIntent: valueIntent(app, answer, null)
FalseIntent ==
    /\ ConversationOpen
    /\ \E rawInput \in RawInputs :
        \E o \in ValueIntent(data, rawInput, OptionNumberOf(data.selectedAnswers, FALSE_STRING),
                             NoArguments, FALSE, FALSE) :
            Respond("false", o)

\* listIntent: the user selects one of the options shown for the presented answers
ListIntent ==
    /\ ConversationOpen
    /\ data.selectedAnswers # <<>>
    /\ \E rawInput \in RawInputs, n \in 1..Len(data.selectedAnswers) :
        \E o \in ValueIntent(data, rawInput,
                             OptionNumberOf(data.selectedAnswers,
                                            OptionKey(data.selectedAnswers[n])),
                             NoArguments, FALSE, FALSE) :
            Respond("list", o)

\* A new round started by a handler other than mainIntent: playAgainYesIntent
\* called by doneNoIntent or feelingLuckyIntent
RestartRound(intent, d) ==
    /\ rounds < MaxSessionRounds
    /\ SelectQuestionsEnter
    /\ data' = d
    /\ response' = "pending"
    /\ contexts' = {}
    /\ turn' = [NoTurn EXCEPT !.intent = intent]
    /\ tally' = NoTally
    /\ UNCHANGED <<shufVars, utilVars>>

\* doneNoIntent (already in done context)
DoneNo(intent) ==
    IF data.currentQuestion = data.gameLength - 1
    THEN RestartRound(intent, [data EXCEPT !.fallbackCount = 0])
    ELSE Respond(intent, AskAgain(data))

DoneNoIntent == ConversationOpen /\ DONE_CONTEXT \in contexts /\ DoneNo("doneNo")

\* doneYesIntent (already in done context)
DoneYesIntent == ConversationOpen /\ DONE_CONTEXT \in contexts /\ Goodbye("doneYes")

\* feelingLuckyIntent: in the play-again context a new round, in the done context
\* doneNoIntent, otherwise a random answer
FeelingLuckyIntent ==
    /\ ConversationOpen
    /\ IF PLAY_AGAIN_CONTEXT \in contexts THEN RestartRound("feelingLucky", data)
       ELSE IF DONE_CONTEXT \in contexts THEN DoneNo("feelingLucky")
       ELSE \E rawInput \in RawInputs, answer \in 0..(Len(data.selectedAnswers) - 1) :
               \E o \in ValueIntent(data, rawInput, answer + 1, NoArguments, FALSE, FALSE) :
                   Respond("feelingLucky", o)

\* answerIntent 1169-1170: the raw input equals synonyms[0] of the correct answer
EqualsFirstSynonym(answer, rawInput) ==
    /\ GetSynonyms(Chars(answer)) # <<>>
    /\ CompareStrings(Chars(rawInput), FirstSynonym(answer))

\* answerIntent 1196-1215: a synonym of the answer other than the first equals an
\* entity of the choice other than the first
EntityMatches(answer, choice) ==
    LET entities == GetSynonyms(GenerateSynonyms(<<Trim(Chars(choice))>>)[1])
        synonyms == GetSynonyms(Chars(answer))
    IN \E j \in 2..Len(synonyms), k \in 2..Len(entities) :
            CompareStrings(synonyms[j], entities[k])

\* the two comparisons evaluated once for every answer of the corpus and phrase
FirstSynonymComparisons ==
    UNION {IF EqualsFirstSynonym(p[1], p[2]) THEN {p} ELSE {} : p \in Comparisons}

EntityComparisons ==
    UNION {IF EntityMatches(p[1], p[2]) THEN {p} ELSE {} : p \in Comparisons}

\* the first element of a set of answer numbers, or 0
FirstOf(hits) == IF hits = {} THEN 0 ELSE CHOOSE n \in hits : \A m \in hits : n <= m

\* answerIntent 1163-1218: the answer number it finds, or 0
AnswerNumber(d, rawInput, choice) ==
    LET selectedAnswers == d.selectedAnswers
    IN IF selectedAnswers = <<>> THEN 0
       ELSE IF <<selectedAnswers[d.correctAnswer + 1], rawInput>> \in FirstSynonymComparisons
       THEN d.correctAnswer + 1
       ELSE IF \E n \in 1..Len(selectedAnswers) : AnswerEqualsOf(selectedAnswers[n], choice)
       THEN FirstOf({n \in 1..Len(selectedAnswers) :
                        AnswerEqualsOf(selectedAnswers[n], choice)})
       ELSE FirstOf({n \in 1..Len(selectedAnswers) :
                        <<selectedAnswers[n], choice>> \in EntityComparisons})

\* answerIntent(app) after the contexts were looked at
AnswerGiven(d, rawInput, choice) ==
    LET d1 == [d EXCEPT !.rawInput = rawInput]
        answer == AnswerNumber(d, rawInput, choice)
    IN IF answer # 0
       THEN ValueIntent(d1, rawInput, answer, NoArguments, FALSE, FALSE)
       ELSE UnknownIntent(d1, rawInput, NoArguments, TRUE)

\* answerIntent(app).  In the play-again context with fallbackCount > 0 the
\* handler calls doneYesIntent and goes on: the session has ended with app.tell
\* and what follows changes the stored score only.
AnswerIntent(d, ctxs, rawInput, choice) ==
    IF PLAY_AGAIN_CONTEXT \in ctxs /\ d.fallbackCount > 0
    THEN {[o EXCEPT !.data = d, !.response = "tell", !.contexts = {},
                    !.branch = "control", !.scored = "none", !.how = "none",
                    !.number = Undefined, !.responses = 1 + o.responses] :
          o \in AnswerGiven(d, rawInput, choice)}
    ELSE IF PLAY_AGAIN_CONTEXT \in ctxs /\ d.rawInput = rawInput
    THEN Tag({[data |-> [d EXCEPT !.fallbackCount = d.fallbackCount + 1],
               response |-> "ask", contexts |-> {DONE_CONTEXT}, persist |-> FALSE]},
             "control", "none", "none")
    ELSE IF DONE_CONTEXT \in ctxs
    THEN Tag({[data |-> d, response |-> "tell", contexts |-> {}, persist |-> FALSE]},
             "control", "none", "none")
    ELSE AnswerGiven(d, rawInput, choice)

\* ------------------------------------------------------------------------
\* Turns followed with their requests: a round of the corpus at its first
\* question, answered through valueIntent, unknownIntent and answerIntent
\* ------------------------------------------------------------------------
\* Turns followed after the first question was asked
MaxMatchTurns == 1

\* app.data as startNewRound leaves it for the questions `questions` of the corpus
RoundData(questions, shown) ==
    [InitData EXCEPT
        !.sessionQuestions = [k \in 1..Len(questions) |-> QuestionAt(questions[k])],
        !.selectedAnswers = shown.selectedAnswers,
        !.correctAnswer = shown.correctIndex,
        !.sessionAnswers = [k \in 1..Len(questions) |-> AnswersAt(questions[k])],
        !.questionPrompt = QuestionAt(questions[1]),
        !.score = 0,
        !.currentQuestion = 0,
        !.gameLength = Len(questions),
        !.fallbackCount = 0]

\* the rounds selectQuestions can return for a new user: QUESTIONS_PER_GAME
\* questions in a row, starting anywhere in the corpus
Rounds ==
    {[k \in 1..QUESTIONS_PER_GAME |-> (first + k - 1) % Len(Questions)] :
        first \in 0..(Len(Questions) - 1)}

MatchOpen == ConversationOpen /\ tally.right + tally.wrong + tally.other < MaxMatchTurns

\* game.choice.value, game.choice.ordinal
ValueRequest ==
    /\ MatchOpen
    /\ \E rawInput \in MatchInputs, arguments \in Arguments :
        \E o \in ValueIntent(data, rawInput, Undefined, arguments, FALSE, FALSE) :
            Respond("value", Request(rawInput, arguments, o))

\* game.unknown
UnknownRequest ==
    /\ MatchOpen
    /\ \E rawInput \in MatchInputs :
        \E o \in UnknownIntent(data, rawInput, NoArguments, FALSE) :
            Respond("unknown", Request(rawInput, NoArguments, o))

\* game.answer
AnswerRequest ==
    /\ MatchOpen
    /\ \E rawInput \in MatchInputs, choice \in AnswerChoices :
        \E o \in AnswerIntent(data, contexts, rawInput, choice) :
            Respond("answer", Request(rawInput, NoArguments, o))

\* ------------------------------------------------------------------------
\* The end of a round: the last question is pending, and the user goes on
\* talking after it was answered (unknownIntent and answerIntent)
\* ------------------------------------------------------------------------
\* Turns followed from the last question on
MaxEndTurns == 3

\* app.data when the last question of the round is asked
LastQuestionData(questions, shown, score) ==
    [RoundData(questions, shown) EXCEPT
        !.questionPrompt = QuestionAt(questions[Len(questions)]),
        !.currentQuestion = Len(questions) - 1,
        !.score = score]

EndOpen == ConversationOpen /\ tally.right + tally.wrong + tally.other < MaxEndTurns

\* What the user says at the end of a round
EndInputs == {"Paris", "xyzzy"}

\* game.unknown
UnknownAtEnd ==
    /\ EndOpen
    /\ \E rawInput \in EndInputs :
        \E o \in UnknownIntent(data, rawInput, NoArguments, FALSE) :
            Respond("unknown", Request(rawInput, NoArguments, o))

\* game.answer
AnswerAtEnd ==
    /\ EndOpen
    /\ \E rawInput \in EndInputs, choice \in AnswerChoices :
        \E o \in AnswerIntent(data, contexts, rawInput, choice) :
            Respond("answer", Request(rawInput, NoArguments, o))

\* A user without a record (mainIntent: previousQuestions = []) and a loaded corpus.
InitSel ==
    /\ questionsLength \in (1..MaxN) \cup {BigN}
    /\ drawOrder = IF questionsLength <= MaxN THEN "every" ELSE "lowest"
    /\ gameLength = QUESTIONS_PER_GAME
    /\ previousQuestions = <<>>
    /\ prevLocal = <<>>
    /\ selected = <<>>
    /\ checked = {}
    /\ i = 0
    /\ previousIndex = 0
    /\ selpc = "idle"
    /\ draws = 0
    /\ repeats = 0
    /\ rounds = 0
    /\ SessionIdle
    /\ ShuffleIdle
    /\ UtilIdle

NextSel ==
    \/ SelectQuestionsCall
    \/ SelDrawAccept
    \/ SelDrawReject
    \/ SelDrawRepeat
    \/ SelReuse
    \/ SelReturn

SpecSel == InitSel /\ [][NextSel]_vars

\* selectAnswers called on its own: every answer list of 2..MaxAnswers strings
\* of the pool and every correct position inside it.
AnswerPool == {"Paris|City of Light", "London", "Berlin", "Venus"}

AnswerLists == UNION {[1..n -> AnswerPool] : n \in 2..MaxAnswers}

SelectorIdle ==
    /\ questionsLength = Len(Questions)
    /\ drawOrder = "lowest"
    /\ gameLength = QUESTIONS_PER_GAME
    /\ previousQuestions = <<>>
    /\ prevLocal = <<>>
    /\ selected = <<>>
    /\ checked = {}
    /\ i = 0
    /\ previousIndex = 0
    /\ selpc = "idle"
    /\ draws = 0
    /\ repeats = 0
    /\ rounds = 0

InitAns ==
    /\ SelectorIdle
    /\ SessionIdle
    /\ shufAnswers \in AnswerLists
    /\ shufIndex \in 0..(Len(shufAnswers) - 1)
    /\ shufResult = <<>>
    /\ UtilIdle

SelectAnswersCall ==
    /\ shufResult = <<>>
    /\ shufResult' \in SelectAnswers(shufIndex, shufAnswers)
    /\ UNCHANGED <<shufAnswers, shufIndex, selVars, sessVars, utilVars>>

NextAns == SelectAnswersCall

SpecAns == InitAns /\ [][NextAns]_vars

\* A new user talking to the game loaded with the corpus above.
Init ==
    /\ SelectorIdle
    /\ SessionIdle
    /\ ShuffleIdle
    /\ UtilIdle

Next ==
    \/ MainIntent
    \/ PlayAgainYesIntent
    \/ SelDrawAccept
    \/ SelDrawReject
    \/ SelReuse
    \/ SelReturn
    \/ StartNewRound
    \/ ValueIntentTurn
    \/ UnknownIntentTurn
    \/ RepeatIntent
    \/ PlayAgainNoIntent
    \/ QuitIntent
    \/ ScoreIntent
    \/ AnswersIntent
    \/ HintIntent
    \/ HelpIntent
    \/ HelpYesIntent
    \/ DisagreeIntent
    \/ MistakenIntent
    \/ DontKnowIntent
    \/ LastIntent
    \/ MiddleIntent
    \/ TrueIntent
    \/ FalseIntent
    \/ ListIntent
    \/ DoneNoIntent
    \/ DoneYesIntent
    \/ FeelingLuckyIntent

Spec == Init /\ [][Next]_vars

\* The state after mainIntent, selectQuestions and startNewRound for a new user
InitMatch ==
    /\ ShuffleIdle
    /\ UtilIdle
    /\ questionsLength = Len(Questions)
    /\ drawOrder = "every"
    /\ gameLength = QUESTIONS_PER_GAME
    /\ prevLocal = <<>>
    /\ checked = {}
    /\ i = QUESTIONS_PER_GAME
    /\ previousIndex = 0
    /\ selpc = "idle"
    /\ draws = QUESTIONS_PER_GAME
    /\ repeats = 0
    /\ rounds = 1
    /\ \E questions \in Rounds :
        \E shown \in PresentAnswersOf(AnswersAt(questions[1])) :
            LET asked == AskQuestion(QuestionAt(questions[1]), shown.selectedAnswers)
            IN /\ selected = questions
               /\ previousQuestions = questions
               /\ data = RoundData(questions, shown)
               /\ response = asked.response
               /\ contexts = asked.contexts
    /\ turn = NoTurn
    /\ tally = NoTally

\* The state after the first QUESTIONS_PER_GAME - 1 questions of the first
\* round were answered, all wrong or all right
InitEnd ==
    /\ ShuffleIdle
    /\ UtilIdle
    /\ questionsLength = Len(Questions)
    /\ drawOrder = "every"
    /\ gameLength = QUESTIONS_PER_GAME
    /\ prevLocal = <<>>
    /\ checked = {}
    /\ i = QUESTIONS_PER_GAME
    /\ previousIndex = 0
    /\ selpc = "idle"
    /\ draws = QUESTIONS_PER_GAME
    /\ repeats = 0
    /\ rounds = 1
    /\ \E questions \in Rounds, score \in {0, QUESTIONS_PER_GAME - 1} :
        \E shown \in PresentAnswersOf(AnswersAt(questions[Len(questions)])) :
            LET asked == AskQuestion(QuestionAt(questions[Len(questions)]),
                                     shown.selectedAnswers)
            IN /\ selected = questions
               /\ previousQuestions = questions
               /\ data = LastQuestionData(questions, shown, score)
               /\ response = asked.response
               /\ contexts = asked.contexts
    /\ turn = NoTurn
    /\ tally = NoTally

\* ------------------------------------------------------------------------
\* Requests that reach a handler of the pending question while the session
\* data holds no question: the first request of a conversation carries an
\* intent other than the main one
\* ------------------------------------------------------------------------
NoConversation == response \in {"idle", "tell", "none"}

\* The intents that end in askQuestion(ssmlResponse, app.data.questionPrompt,
\* app.data.selectedAnswers)
AskAgainIntents == {"repeat", "score", "answers", "hint", "disagree", "mistaken"}

\* The state after a turn of a conversation that began with app.data empty
Unprepared(intent, o) ==
    /\ data' = o.data
    /\ response' = o.response
    /\ contexts' = o.contexts
    /\ turn' = [NoTurn EXCEPT !.intent = intent, !.branch = o.branch,
                              !.responses = o.responses]
    /\ tally' = NoTally
    /\ UNCHANGED <<selVars, shufVars, utilVars>>

\* repeatIntent, scoreIntent, answersIntent, hintIntent, disagreeIntent and
\* mistakenIntent on an empty session: askQuestion returns at 471-478
AskAgainUnprepared ==
    /\ NoConversation
    /\ \E intent \in AskAgainIntents : Unprepared(intent, AskAgain(InitData))

\* valueIntent on an empty session: selectedAnswers.length at 696 throws a
\* TypeError, and the handler ends without app.ask or app.tell
ValueUnprepared ==
    /\ NoConversation
    /\ Unprepared("value", [data |-> InitData, response |-> "none", contexts |-> {},
                            branch |-> "error", responses |-> 0])

\* ------------------------------------------------------------------------
\* Conversations with the reads of the database as steps of their own: a
\* turn issues a read and goes on in the callback of once('value', ...)
\* ------------------------------------------------------------------------
otherVars == <<shufVars, fuzzyVars, synVars, promptVars, scoreVars>>

\* What the database can answer to a read
StoreAnswersTo(read) ==
    IF read = "dictionary" THEN DictionaryReads(turn.rawInput)
    ELSE {"value", "empty", "error"}

\* mainIntent 417-418: the read of the user record
MainRequest ==
    /\ NoConversation
    /\ selpc \in {"idle", "done"}
    /\ rounds < MaxSessionRounds
    /\ data' = InitData
    /\ response' = "pending"
    /\ contexts' = {}
    /\ turn' = [NoTurn EXCEPT !.intent = "main"]
    /\ tally' = NoTally
    /\ store' = [read |-> "user", state |-> "issued"]
    /\ UNCHANGED <<selVars, otherVars>>

\* The database answers the read, or fails
StoreAnswers ==
    /\ store.state = "issued"
    /\ \E answer \in StoreAnswersTo(store.read) : store' = [store EXCEPT !.state = answer]
    /\ UNCHANGED <<selVars, sessVars, otherVars>>

\* mainIntent 419-443: the callback of the read of the user record, which has
\* no failure callback, up to the read of the corpus in startNewRound (290-291)
UserCallback ==
    /\ response = "pending"
    /\ store.read = "user"
    /\ store.state \in {"value", "empty"}
    /\ store' = [read |-> "corpus", state |-> "issued"]
    /\ UNCHANGED <<selVars, sessVars, otherVars>>

\* startNewRound 291-350: the callback of the read of the corpus, which has no
\* failure callback, up to the call of selectQuestions, or 'No questions.'
CorpusCallback ==
    /\ response = "pending"
    /\ store.read = "corpus"
    /\ store.state \in {"value", "empty"}
    /\ store' = [store EXCEPT !.state = "done"]
    /\ IF store.state = "value"
       THEN SelectQuestionsEnter /\ UNCHANGED sessVars
       ELSE /\ response' = "tell"
            /\ turn' = [turn EXCEPT !.branch = "failed", !.responses = 1]
            /\ UNCHANGED <<selVars, data, contexts, tally>>
    /\ UNCHANGED otherVars

\* unknownIntent 783-877 when no presented answer matches the raw input: the
\* read of the dictionary entry
UnknownReadRequest ==
    /\ ConversationOpen
    /\ data.fallbackCount < MaxFallbackCount
    /\ \E rawInput \in RawInputs :
        /\ MatchingAnswers(data.selectedAnswers, rawInput) = {}
        /\ turn' = [NoTurn EXCEPT !.intent = "unknown", !.rawInput = rawInput]
    /\ data' = [data EXCEPT !.fallbackCount = data.fallbackCount + 1]
    /\ response' = "pending"
    /\ store' = [read |-> "dictionary", state |-> "issued"]
    /\ UNCHANGED <<selVars, contexts, tally, otherVars>>

\* unknownIntent 878-888: the callbacks of the read of the dictionary entry
DictionaryCallback ==
    /\ response = "pending"
    /\ store.read = "dictionary"
    /\ store.state \in {"value", "empty", "error"}
    /\ \E o \in IF store.state = "value"
                THEN Tag(HandleDictionaryInput(data), "dictionary", "none", "none")
                ELSE Tag({HandleNonDictionaryInput(data)}, "unresolved", "none", "none") :
        Respond("unknown", Request(turn.rawInput, NoArguments, o))

NextStore ==
    \/ MainRequest
    \/ StoreAnswers
    \/ UserCallback
    \/ CorpusCallback
    \/ SelDrawAccept
    \/ SelDrawReject
    \/ SelReuse
    \/ SelReturn
    \/ StartNewRound
    \/ UnknownReadRequest
    \/ DictionaryCallback
    \/ ValueIntentTurn
    \/ QuitIntent

\* A step that can be taken is taken: the database answers every read, with a
\* value or with a failure, and each callback that is called runs
SpecStore == Init /\ [][NextStore]_vars /\ WF_vars(NextStore)

\* ------------------------------------------------------------------------
\* persistScore: the read of the user record, the callback that computes the
\* new score fields from the snapshot, and the update that stores them
\* ------------------------------------------------------------------------
\* Highest score of a round that is persisted
MaxScore == 2
\* Calls of persistScore followed for one user
MaxPersistCalls == 3

ScoreValues == 0..MaxScore

\* totalScore / scores, kept as the pair of its operands
Average(totalScore, scores) == <<totalScore, scores>>

\* persistScore 374-407: the fields passed to update() for the score of the
\* round and the snapshot of the record
UpdatedRecord(snapshot, score) ==
    IF snapshot # NoRecord /\ Truthy(snapshot.highestScore)
    THEN [highestScore |-> IF score > snapshot.highestScore THEN score
                           ELSE snapshot.highestScore,
          lowestScore |-> IF score < snapshot.lowestScore THEN score
                          ELSE snapshot.lowestScore,
          averageScore |-> Average(snapshot.totalScore + score, snapshot.scores + 1),
          totalScore |-> snapshot.totalScore + score,
          scores |-> snapshot.scores + 1]
    ELSE [highestScore |-> score, lowestScore |-> score,
          averageScore |-> score, totalScore |-> score, scores |-> 1]

Persisting(s) == persisting[s].pc # "idle"

\* persistScore() is called in session s at the end of a round (372-373)
PersistScoreCall(s) ==
    /\ ~Persisting(s)
    /\ Len(persistLog.scores) + Cardinality({t \in Sessions : Persisting(t)}) < MaxPersistCalls
    /\ \E score \in ScoreValues :
        persisting' = [persisting EXCEPT
                          ![s] = [pc |-> "reading", score |-> score, snapshot |-> NoRecord]]
    /\ persistLog' = [persistLog EXCEPT
                         !.overlapped = @ \/ \E t \in Sessions : Persisting(t)]
    /\ UNCHANGED <<user, selVars, sessVars, shufVars, fuzzyVars, synVars, promptVars, store>>

\* The database answers the read: the callback of once('value', ...) gets the
\* record as it is now (373-374)
PersistScoreRead(s) ==
    /\ persisting[s].pc = "reading"
    /\ persisting' = [persisting EXCEPT ![s].pc = "writing", ![s].snapshot = user]
    /\ UNCHANGED <<user, persistLog, selVars, sessVars, shufVars, fuzzyVars, synVars,
                   promptVars, store>>

\* The update() issued by the callback is applied to the record (391-406)
PersistScoreUpdate(s) ==
    /\ persisting[s].pc = "writing"
    /\ user' = UpdatedRecord(persisting[s].snapshot, persisting[s].score)
    /\ persistLog' = [persistLog EXCEPT !.scores = Append(@, persisting[s].score)]
    /\ persisting' = [persisting EXCEPT ![s] = NotPersisting]
    /\ UNCHANGED <<selVars, sessVars, shufVars, fuzzyVars, synVars, promptVars, store>>

NextScore ==
    \/ \E s \in Sessions : PersistScoreCall(s)
    \/ \E s \in Sessions : PersistScoreRead(s)
    \/ \E s \in Sessions : PersistScoreUpdate(s)

SpecScore == Init /\ [][NextScore]_vars

\* Conversations on the corpus with short answer sets
NextShort ==
    \/ MainIntent
    \/ PlayAgainYesIntent
    \/ SelDrawAccept
    \/ SelDrawReject
    \/ SelReuse
    \/ SelReturn
    \/ StartShortRound
    \/ ValueIntentTurn
    \/ UnknownIntentTurn
    \/ DontKnowIntent
    \/ QuitIntent

SpecShort == Init /\ [][NextShort]_vars

\* The conversations of Spec, and those that begin with another intent than
\* the main one
NextUnprepared ==
    \/ Next
    \/ AskAgainUnprepared
    \/ ValueUnprepared

SpecUnprepared == Init /\ [][NextUnprepared]_vars

NextEnd ==
    \/ UnknownAtEnd
    \/ AnswerAtEnd

SpecEnd == InitEnd /\ [][NextEnd]_vars

NextMatch ==
    \/ ValueRequest
    \/ UnknownRequest
    \/ AnswerRequest

SpecMatch == InitMatch /\ [][NextMatch]_vars

\* ------------------------------------------------------------------------
\* utils.fuzzyMatch called on its own with two strings over a two-letter
\* alphabet, and with strings that hold capitals, punctuation and spaces
\* ------------------------------------------------------------------------
\* The longest string over the two letters
MaxFuzzyLen == 5

FuzzyLetters == {"a", "b"}

FuzzyDecorated ==
    {<<"A", "b", "a", "b">>, <<"a", ".", "b", " ", "a", "b">>, <<"a", " ", "b", "!">>,
     <<"a", "b", "-", "a">>, <<"B", "a", "b", "a", ",", " ", "B">>}

FuzzyStrings ==
    UNION {[1..n -> FuzzyLetters] : n \in 2..MaxFuzzyLen} \cup FuzzyDecorated

InitFuzzy ==
    /\ SelectorIdle
    /\ SessionIdle
    /\ ShuffleIdle
    /\ fuzzyValue1 \in FuzzyStrings
    /\ fuzzyValue2 \in FuzzyStrings
    /\ fuzzyResult = <<>>
    /\ SynonymsIdle
    /\ PromptIdle
    /\ StoreIdle
    /\ ScoreIdle

FuzzyMatchCall ==
    /\ fuzzyResult = <<>>
    /\ fuzzyResult' = <<FuzzyMatch(fuzzyValue1, fuzzyValue2)>>
    /\ UNCHANGED <<fuzzyValue1, fuzzyValue2, synVars, promptVars, store, scoreVars, selVars, sessVars,
                   shufVars>>

NextFuzzy == FuzzyMatchCall

SpecFuzzy == InitFuzzy /\ [][NextFuzzy]_vars

\* ------------------------------------------------------------------------
\* utils.generateSynonyms called on its own with the answers of one question:
\* lists of distinct trimmed strings over the words x, y, z and the ignorable
\* word a
\* ------------------------------------------------------------------------
\* The longest list of answers
MaxValues == 3

SynonymStrings ==
    {<<"x">>, <<"a">>, <<"x", " ", "y">>, <<"z", " ", "x">>, <<"x", " ", "x", " ", "y">>,
     <<"a", " ", "x">>, <<"x", "|", "y">>, <<"y", "|", "x">>, <<"z", "|", "x", " ", "y">>,
     <<"x", "|", "x", " ", "y">>}

ValueLists ==
    UNION {{values \in [1..n -> SynonymStrings] : NoDuplicates(values)} : n \in 1..MaxValues}

InitSynonyms ==
    /\ SelectorIdle
    /\ SessionIdle
    /\ ShuffleIdle
    /\ FuzzyIdle
    /\ PromptIdle
    /\ StoreIdle
    /\ ScoreIdle
    /\ synValues \in ValueLists
    /\ synResults = <<>>

GenerateSynonymsCall ==
    /\ synResults = <<>>
    /\ synResults' = GenerateSynonyms(synValues)
    /\ UNCHANGED <<fuzzyVars, synValues, promptVars, store, scoreVars, selVars, sessVars, shufVars>>

NextSynonyms == GenerateSynonymsCall

SpecSynonyms == InitSynonyms /\ [][NextSynonyms]_vars

\* ------------------------------------------------------------------------
\* getRandomPrompt: the prompts served in the requests of one conversation.
\* The prompt type t has t templates <<t, 1>> .. <<t, t>>.
\* ------------------------------------------------------------------------
\* The largest number of templates of a prompt type
MaxTemplates == 3
\* Calls of getRandomPrompt followed in one conversation
MaxPromptCalls == 3

PromptTypes == 1..MaxTemplates

\* themes.getPrompts(theme, type)
GetPrompts(type) == [k \in 1..type |-> <<type, k>>]

\* utils.getRandomItem(array): every item it can return
GetRandomItem(array) == Range(array)

InitPrompt ==
    /\ SelectorIdle
    /\ SessionIdle
    /\ ShuffleIdle
    /\ FuzzyIdle
    /\ SynonymsIdle
    /\ PromptIdle
    /\ StoreIdle
    /\ ScoreIdle

\* A request arrives: its handler starts with hasLastPrompt = false (index.js 141)
PromptRequest ==
    /\ promptpc \in {"idle", "returned"}
    /\ hasLastPrompt
    /\ hasLastPrompt' = FALSE
    /\ UNCHANGED <<promptType, prompt, counter, promptpc, lastPrompt, promptCalls, fuzzyVars,
                   synVars, store, scoreVars, selVars, sessVars, shufVars>>

\* getRandomPrompt(index) up to the first draw of Themes.getRandomPrompt
GetRandomPromptCall ==
    /\ promptpc \in {"idle", "returned"}
    /\ promptCalls < MaxPromptCalls
    /\ promptCalls' = promptCalls + 1
    /\ promptType' \in PromptTypes
    /\ prompt' \in GetRandomItem(GetPrompts(promptType'))
    /\ counter' = 1
    /\ promptpc' = "loop"
    /\ UNCHANGED <<lastPrompt, hasLastPrompt, fuzzyVars, synVars, store, scoreVars, selVars, sessVars,
                   shufVars>>

\* The condition of the while loop of Themes.getRandomPrompt (themes.js 164-166)
DrawAgain == lastPrompt # <<>> /\ prompt = lastPrompt /\ counter < Len(GetPrompts(promptType))

\* One turn of the loop: another draw
PromptRedraw ==
    /\ promptpc = "loop"
    /\ DrawAgain
    /\ counter' = counter + 1
    /\ prompt' \in GetRandomItem(GetPrompts(promptType))
    /\ UNCHANGED <<promptType, promptpc, lastPrompt, hasLastPrompt, promptCalls, fuzzyVars,
                   synVars, store, scoreVars, selVars, sessVars, shufVars>>

\* Themes.getRandomPrompt returns prompt; getRandomPrompt records the first
\* prompt of the request as app.data.lastPrompt (index.js 176-184)
PromptReturn ==
    /\ promptpc = "loop"
    /\ ~DrawAgain
    /\ promptpc' = "returned"
    /\ lastPrompt' = IF ~hasLastPrompt THEN prompt ELSE lastPrompt
    /\ hasLastPrompt' = TRUE
    /\ UNCHANGED <<promptType, prompt, counter, promptCalls, fuzzyVars, synVars, store, scoreVars,
                   selVars, sessVars, shufVars>>

NextPrompt ==
    \/ PromptRequest
    \/ GetRandomPromptCall
    \/ PromptRedraw
    \/ PromptReturn

SpecPrompt == InitPrompt /\ [][NextPrompt]_vars

\* The call is about to return `selected`; app.data.previousQuestions still holds
\* the history the call was given.
SelAtReturn == selpc = "loop" /\ ~(i < gameLength)

Unseen(h) == {x \in 0..(questionsLength - 1) : x \notin Range(h)}

C2_NoDuplicateQuestion == NoDuplicates(selected)

C2_Witness ==
    /\ SelAtReturn
    /\ previousIndex > 0
    /\ \E k \in 1..Len(previousQuestions) :
        \E m \in 1..Len(previousQuestions) : k # m /\ previousQuestions[k] = previousQuestions[m]

\* C3: selectQuestions returns exactly min(QUESTIONS_PER_GAME, N) entries.
C3_RoundLength ==
    SelAtReturn => Len(selected) = Min(QUESTIONS_PER_GAME, questionsLength)

C3_Witness ==
    /\ SelAtReturn
    /\ previousIndex > 0
    /\ Unseen(previousQuestions) = {}
    /\ Len(selected) = Min(QUESTIONS_PER_GAME, questionsLength)

\* C4 (as stated): the stored history never has more than MAX_PREVIOUS_QUESTIONS
\* entries.
C4_HistoryCap == Len(previousQuestions) <= MAX_PREVIOUS_QUESTIONS

\* C5 (as stated): the search ends after at most N draws.
C5_Original == SelAtReturn => draws <= questionsLength

\* C5 (amended): a draw is made only while checked does not hold every index,
\* and the draws that did not return an already checked index number fewer
\* than N + L.
C5_BoundedSearch ==
    /\ [](draws - repeats < questionsLength + gameLength)
    /\ [][draws' = draws + 1 => Cardinality(checked) < questionsLength]_vars

C5_Witness ==
    /\ SelAtReturn
    /\ draws > questionsLength
    /\ repeats > 0
    /\ Cardinality(checked) = questionsLength

\* Occurrences of the string a in the list s
Occurrences(s, a) == Cardinality({k \in 1..Len(s) : s[k] = a})

\* C6: for an answer list of length n >= 2 and a correct position c in 0..n-1,
\* selectAnswers(c, answers) returns a list of length n that holds every answer
\* as often as the input does, with answers[0] at position c.
C6_Permutation ==
    shufResult # <<>> =>
        /\ Len(shufResult) = Len(shufAnswers)
        /\ shufResult[shufIndex + 1] = shufAnswers[1]
        /\ \A a \in Range(shufAnswers) \cup Range(shufResult) :
            Occurrences(shufResult, a) = Occurrences(shufAnswers, a)

C6_Witness ==
    /\ Len(shufAnswers) = MaxAnswers
    /\ NoDuplicates(shufAnswers)
    /\ shufIndex = 1
    /\ shufResult # <<>>
    /\ shufResult # shufAnswers

\* The question pending in the session and its stored answer set
QuestionPending ==
    /\ data.sessionAnswers # <<>>
    /\ data.currentQuestion >= 0
    /\ data.currentQuestion < Len(data.sessionAnswers)

StoredAnswers == data.sessionAnswers[data.currentQuestion + 1]

\* the representative form of an answer, in lower case
RepresentativeForm(answer) == ToLowerCase(GetSynonyms(Chars(answer))[1])

TrueFalseStored ==
    /\ QuestionPending
    /\ Len(StoredAnswers) = 2
    /\ {RepresentativeForm(StoredAnswers[1]), RepresentativeForm(StoredAnswers[2])}
            = {TRUE_STRING, FALSE_STRING}

\* C7: when the pending question is a true/false question, at round start and
\* after advancing, the presented answers are the stored answer set in storage
\* order and the recorded correct position is that of the canonical correct
\* answer, the first of the stored set.
C7_TrueFalseNotShuffled ==
    TrueFalseStored =>
        /\ data.selectedAnswers = StoredAnswers
        /\ data.correctAnswer = 0
        /\ data.selectedAnswers[data.correctAnswer + 1] = StoredAnswers[1]

C7_Witness ==
    /\ TrueFalseStored
    /\ turn.branch = "answer"
    /\ data.currentQuestion = 2
    /\ StoredAnswers = <<"false", "true">>
    /\ data.selectedAnswers = <<"false", "true">>

\* The round has been finalized after one answer to each of its questions
RoundAnsweredOnce ==
    /\ PLAY_AGAIN_CONTEXT \in contexts
    /\ tally.other = 0
    /\ tally.right + tally.wrong = data.gameLength

\* C8: when a round is finalized after every question was answered once, the
\* score is the round length if every answer was right and 0 if every answer
\* was wrong.
C8_RoundScore ==
    RoundAnsweredOnce =>
        /\ tally.wrong = 0 => data.score = data.gameLength
        /\ tally.right = 0 => data.score = 0

C8_Witness ==
    /\ RoundAnsweredOnce
    /\ tally.right = QUESTIONS_PER_GAME
    /\ data.score = QUESTIONS_PER_GAME

C8_WitnessNoneRight ==
    /\ RoundAnsweredOnce
    /\ tally.wrong = QUESTIONS_PER_GAME
    /\ data.score = 0

\* A turn whose input resolved to no presented answer and had no dictionary entry
UnresolvedTurn == turn'.branch = "unresolved" /\ response = "ask"

\* C9: an unresolved turn taken at fallbackCount 0 reprompts and keeps the
\* session open, the next one offers to quit with the quit context set, and the
\* third ends the session.
C9_FallbackEscalation ==
    [][UnresolvedTurn =>
        /\ data.fallbackCount = 0 =>
            /\ response' = "ask" /\ DONE_CONTEXT \notin contexts'
            /\ data'.fallbackCount = 1
        /\ data.fallbackCount = 1 =>
            /\ response' = "ask" /\ DONE_CONTEXT \in contexts'
            /\ data'.fallbackCount = 2
        /\ data.fallbackCount = 2 => response' = "tell"]_vars

C9_Witness ==
    /\ turn.branch = "unresolved"
    /\ response = "tell"
    /\ data.fallbackCount = 3
    /\ data.currentQuestion = 1

\* C10 (as stated): a turn whose input was resolved to a valid answer position
\* ends with fallbackCount = 0.
C10_ResolvedResetsFallbackCount ==
    turn.branch = "answer" => data.fallbackCount = 0

\* A turn that was not resolved to a presented answer and whose raw input has an
\* entry in the dictionary
DictionaryTurn == turn'.branch = "dictionary" /\ response = "ask"

\* C11 (as stated): a dictionary turn leaves the score unchanged, clears the
\* correctness flag, advances the round by one question or finalizes it on the
\* last question, and ends with a fallbackCount not higher than before the turn.
C11_DictionaryTurnIsWrongAnswer ==
    [][DictionaryTurn =>
        /\ data'.score = data.score
        /\ data'.correct = FALSE
        /\ IF data.currentQuestion = data.gameLength - 1
           THEN /\ PLAY_AGAIN_CONTEXT \in contexts'
                /\ data'.currentQuestion = data.currentQuestion
           ELSE data'.currentQuestion = data.currentQuestion + 1
        /\ data'.fallbackCount <= data.fallbackCount]_vars

\* The explicit-control intents: repeat, score, help, hint, list of answers,
\* skip, feeling lucky, true/false shortcut, last/middle shortcut, list selection
ExplicitControlIntents ==
    {"repeat", "score", "help", "hint", "answers", "dontKnow", "feelingLucky",
     "true", "false", "last", "middle", "list"}

\* C12 (as stated): after every explicit-control turn that has responded,
\* fallbackCount is 0.
C12_ControlTurnResetsFallbackCount ==
    (turn.intent \in ExplicitControlIntents /\ response \in {"ask", "tell", "none"})
        => data.fallbackCount = 0

\* A round has started: startNewRound stored its questions in app.data
RoundStarted == data.sessionQuestions # <<>>

\* C13: once a round has started, 0 <= currentQuestion < gameLength in every
\* state of the session, whatever turns were taken.
C13_CurrentQuestionInRange ==
    RoundStarted => (0 <= data.currentQuestion /\ data.currentQuestion < data.gameLength)

\* a turn taken on the last question of a round went through nextQuestion
C13_Witness ==
    /\ RoundStarted
    /\ data.currentQuestion = data.gameLength - 1
    /\ PLAY_AGAIN_CONTEXT \in contexts
    /\ turn.branch \in {"answer", "skip", "dictionary"}

\* C14 (as stated): once a round has started, the recorded correct-answer
\* position counts from 1: it lies in 1..(number of presented answers) and the
\* presented answer at that position, counted from 1, is the correct one.
C14_Original ==
    RoundStarted =>
        /\ 1 <= data.correctAnswer
        /\ data.correctAnswer <= Len(data.selectedAnswers)
        /\ data.selectedAnswers[data.correctAnswer] = StoredAnswers[1]

\* C14 (amended): once a round has started, the recorded correct-answer
\* position counts from 0: it lies in 0..(number of presented answers - 1) and
\* the presented answer at that position, counted from 0, is the correct one
\* (the first stored answer of the pending question).
C14_CorrectAnswerZeroBased ==
    RoundStarted =>
        /\ 0 <= data.correctAnswer
        /\ data.correctAnswer < Len(data.selectedAnswers)
        /\ data.selectedAnswers[data.correctAnswer + 1] = StoredAnswers[1]

\* nextQuestion presented a question whose correct answer is in the last position
C14_Witness ==
    /\ RoundStarted
    /\ data.currentQuestion > 0
    /\ Len(data.selectedAnswers) = 3
    /\ data.correctAnswer = 2
    /\ turn.branch = "answer"

\* The presented answers (before the turn) with a synonym equal to the raw input
\* of the turn
ExactPositions ==
    {n \in 1..Len(data.selectedAnswers) :
        AnswerEqualsOf(data.selectedAnswers[n], turn'.rawInput)}

\* A value turn whose request carries the number of a presented answer in one
\* of the arguments number, any and ordinal
ArgumentTurn ==
    /\ turn'.intent = "value"
    /\ IsValidAnswer(turn'.argument, data.selectedAnswers)

\* C15 (as stated): a value turn with an explicit argument scores the answer at
\* the position the argument names, whatever the raw input.
C15_Original ==
    [][ArgumentTurn =>
        /\ turn'.branch = "answer"
        /\ turn'.number = turn'.argument]_vars

\* C15 (amended): a value turn with an explicit argument scores the answer at the
\* position the argument names when the raw input equals no synonym of a
\* presented answer; when it equals one, the first such answer is scored.
C15_RawInputBeforeArgument ==
    [][ArgumentTurn =>
        /\ turn'.branch = "answer"
        /\ turn'.number = IF ExactPositions # {} THEN FirstOf(ExactPositions)
                          ELSE turn'.argument
        /\ turn'.scored = IF data.correctAnswer + 1 = turn'.number THEN "right"
                          ELSE "wrong"]_vars

\* a value turn scored the answer the raw input names, not the one the argument names
C15_Witness ==
    /\ turn.intent = "value"
    /\ turn.branch = "answer"
    /\ turn.how = "exact"
    /\ Truthy(turn.argument)
    /\ turn.number # turn.argument

\* a value turn scored the answer the argument names
C15_WitnessArgument ==
    /\ turn.intent = "value"
    /\ turn.branch = "answer"
    /\ turn.how = "argument"
    /\ turn.number = turn.argument

\* utils.fuzzyMatch of some synonym of the answer with the trimmed raw input,
\* evaluated once for every answer of the corpus and every phrase
FuzzyComparisons ==
    UNION {IF \E syn \in Range(GetSynonyms(Chars(p[1]))) :
                  FuzzyMatch(syn, Trim(Chars(p[2])))
           THEN {p} ELSE {} : p \in Comparisons}

\* The presented answers (before the turn) with a synonym that matches the raw
\* input of the turn fuzzily
FuzzyPositions ==
    {n \in 1..Len(data.selectedAnswers) :
        <<data.selectedAnswers[n], turn'.rawInput>> \in FuzzyComparisons}

\* C16: a turn of unknownIntent whose raw input matches a synonym of a presented
\* answer fuzzily resolves to the first such answer in presentation order; a
\* partial-word match on another answer does not override it.
C16_FuzzyBeforePartial ==
    [][(turn'.intent = "unknown" /\ FuzzyPositions # {}) =>
        /\ turn'.branch = "answer"
        /\ turn'.number = FirstOf(FuzzyPositions)]_vars

\* The presented answers (before the turn) whose representative form, the first
\* synonym, equals the raw input of the turn
RepresentativePositions ==
    {n \in 1..Len(data.selectedAnswers) :
        <<data.selectedAnswers[n], turn'.rawInput>> \in FirstSynonymComparisons}

\* A turn of valueIntent or answerIntent on a pending question
AnswerOrValueTurn ==
    /\ turn'.intent \in {"value", "answer"}
    /\ contexts \cap {PLAY_AGAIN_CONTEXT, DONE_CONTEXT} = {}

\* C17: a turn of valueIntent or answerIntent whose raw input equals the
\* representative form of a presented answer resolves to that answer's position.
C17_ExactMatchWins ==
    [][(AnswerOrValueTurn /\ RepresentativePositions # {}) =>
        /\ turn'.branch = "answer"
        /\ turn'.number = FirstOf(RepresentativePositions)]_vars

\* The two arguments of fuzzyMatch in lower case without punctuation and spaces
Normalized1 == RemovePunctuationAndSpaces(ToLowerCase(fuzzyValue1))
Normalized2 == RemovePunctuationAndSpaces(ToLowerCase(fuzzyValue2))

\* b is a with one character taken out
OneDeleted(a, b) ==
    /\ Len(a) = Len(b) + 1
    /\ \E k \in 1..Len(a) : b = [m \in 1..Len(b) |-> IF m < k THEN a[m] ELSE a[m + 1]]

\* b is a with exactly one character replaced
OneReplaced(a, b) ==
    /\ Len(a) = Len(b)
    /\ Cardinality({k \in 1..Len(a) : a[k] # b[k]}) = 1

\* a and b are one edit apart: one character replaced, inserted or deleted
EditDistanceOne(a, b) == OneReplaced(a, b) \/ OneDeleted(a, b) \/ OneDeleted(b, a)

Group(k) == GetSynonyms(synResults[k])

\* C19: after generateSynonyms no string is a member of the groups of two
\* different answers.
C19_GroupsDisjoint ==
    synResults # <<>> =>
        \A k, m \in 1..Len(synResults) :
            k # m => Range(Group(k)) \cap Range(Group(m)) = {}

\* The first synonym of a value: its representative form
Representative(value) == GetSynonyms(Trim(value))[1]

\* C20: generateSynonyms returns one group for every value, in the order of
\* the values; no group is empty, and a group left with one member is the
\* original string of its value.
C20_OneGroupPerValue ==
    synResults # <<>> =>
        /\ Len(synResults) = Len(synValues)
        /\ \A k \in 1..Len(synResults) :
            /\ synResults[k] # <<>>
            /\ Group(k) # <<>>
            /\ Group(k)[1] = Representative(synValues[k])
            /\ Len(Group(k)) = 1 => synResults[k] = Trim(synValues[k])

\* generateSynonyms has returned the groups of three answers; the only word
\* of one of them was removed as a word of another, and a third one lost
\* every word and kept its full string
C20_Witness ==
    /\ Len(synResults) = 3
    /\ synValues[2] = <<"x">>
    /\ synResults[2] = <<"x">>
    /\ synValues[1] = <<"x", " ", "x", " ", "y">>
    /\ synValues[3] = <<"y", "|", "x">>

\* C21: no group returned by generateSynonyms holds the same entry twice.
C21_NoDuplicateInGroup ==
    synResults # <<>> => \A k \in 1..Len(synResults) : NoDuplicates(Group(k))

\* C27: when getRandomPrompt returns a prompt of a type with more than one
\* template and a last prompt is recorded, the prompt differs from the last
\* prompt.
C27_PromptDiffersFromLast ==
    [][(/\ promptpc = "loop"
        /\ promptpc' = "returned"
        /\ lastPrompt # <<>>
        /\ Len(GetPrompts(promptType)) > 1) => prompt' # lastPrompt]_vars

\* A turn that was resolved to a presented answer, or whose raw input has an
\* entry in the dictionary
ResolvedTurn == turn'.branch \in {"answer", "dictionary"} /\ response = "ask"

\* The answers stored for the question after the pending one
NextStoredAnswers == AnswerSetAt(data.sessionAnswers, data.currentQuestion + 1)

\* C22: a resolved turn on the last question persists the score, sets the
\* play-again context, keeps the session open and keeps currentQuestion; on
\* any other question it moves currentQuestion on by one and stores the
\* answers of the new question with the position of its correct answer.
C22_FinalizeOrAdvance ==
    [][ResolvedTurn =>
        IF data.currentQuestion = data.gameLength - 1
        THEN /\ turn'.persist
             /\ PLAY_AGAIN_CONTEXT \in contexts'
             /\ response' = "ask"
             /\ data'.currentQuestion = data.currentQuestion
        ELSE /\ data'.currentQuestion = data.currentQuestion + 1
             /\ Len(data'.selectedAnswers) = Len(NextStoredAnswers)
             /\ Range(data'.selectedAnswers) = Range(NextStoredAnswers)
             /\ data'.selectedAnswers[data'.correctAnswer + 1] = NextStoredAnswers[1]]_vars

\* the last question of a round was answered right after the others were
\* answered, and the score was persisted
C22_Witness ==
    /\ turn.branch = "answer"
    /\ turn.scored = "right"
    /\ turn.persist
    /\ PLAY_AGAIN_CONTEXT \in contexts
    /\ tally.right + tally.wrong = data.gameLength
    /\ data.currentQuestion = data.gameLength - 1

\* C30: every turn that was handled has issued exactly one app.ask or app.tell.
C30_OneResponsePerTurn ==
    (turn.intent # "none" /\ response \in {"ask", "tell", "none"}) => turn.responses = 1

\* The round has ended: its last question was answered and the user is asked
\* whether to play again
RoundEnded == response = "ask" /\ PLAY_AGAIN_CONTEXT \in contexts

\* C23: after a round has ended a play-again yes enters question selection,
\* and the round it starts has score 0, currentQuestion 0 and fallbackCount 0;
\* a play-again no ends the conversation with app.tell and leaves the score
\* of the session as it was.
C23_PlayAgainYesOrNo ==
    [][/\ (RoundEnded /\ turn'.intent = "playAgainYes")
            => (response' = "pending" /\ selpc' # "idle" /\ rounds' = rounds + 1)
       /\ (response = "pending" /\ turn.intent = "playAgainYes" /\ turn'.branch = "started")
            => /\ response' = "ask"
               /\ data'.score = 0
               /\ data'.currentQuestion = 0
               /\ data'.fallbackCount = 0
       /\ (RoundEnded /\ turn'.intent = "playAgainNo")
            => (response' = "tell" /\ data'.score = data.score)]_vars

\* after a round with a score, question selection has returned for the
\* play-again yes and the new round is about to be stored
C23_Witness ==
    /\ turn.intent = "playAgainYes"
    /\ response = "pending"
    /\ selpc = "done"
    /\ rounds = 2
    /\ data.score > 0
    /\ data.currentQuestion = data.gameLength - 1

\* An unresolved turn that reprompts: the first or the second fallback
Reprompted == UnresolvedTurn /\ response' = "ask"

\* C28 (as stated): an unresolved turn that reprompts changes nothing in the
\* session data but fallbackCount.
C28_OnlyFallbackCountChanges ==
    [][Reprompted => data' = [data EXCEPT !.fallbackCount = data'.fallbackCount]]_vars

\* C28 (amended): an unresolved turn that reprompts leaves score,
\* currentQuestion, selectedAnswers, correctAnswer, questionPrompt and the rest
\* of the session data unchanged, but for fallbackCount, which goes up by one,
\* and for rawInput, which a turn handled by answerIntent replaces by the
\* input of the turn; the quit context is set by the second fallback only.
C28_UnresolvedKeepsQuestion ==
    [][Reprompted =>
        /\ data' = [data EXCEPT !.fallbackCount = data.fallbackCount + 1,
                                !.rawInput = data'.rawInput]
        /\ data'.rawInput = IF turn'.intent = "answer" THEN turn'.rawInput ELSE data.rawInput
        /\ data'.fallbackCount \in {1, 2}
        /\ DONE_CONTEXT \in contexts' <=> data'.fallbackCount = 2]_vars

\* the second fallback in a row on a question, handled by answerIntent, in a
\* round with a score
C28_Witness ==
    /\ turn.intent = "answer"
    /\ turn.branch = "unresolved"
    /\ response = "ask"
    /\ DONE_CONTEXT \in contexts
    /\ data.fallbackCount = 2
    /\ data.rawInput = "xyzzy"
    /\ data.score > 0

\* The control turns that talk about the pending question
PendingQuestionIntents ==
    {"repeat", "score", "help", "hint", "answers", "disagree", "mistaken"}

PendingQuestionTurn == turn'.intent \in PendingQuestionIntents /\ response = "ask"

\* C29 (as stated): a repeat, score, help, hint, list-answers, disagree or
\* mistaken turn changes nothing in the session data but fallbackCount, which
\* it sets to 0, and asks the pending question again.
C29_ControlTurnAsksAgain ==
    [][PendingQuestionTurn =>
        /\ data' = [data EXCEPT !.fallbackCount = 0]
        /\ turn'.branch = "question"
        /\ response' = "ask"]_vars

\* C29 (amended): each of these turns changes nothing in the session data but
\* fallbackCount, which it sets to 0, and keeps the session open; all but help
\* ask the pending question again, and help asks whether to go on playing,
\* with the help context set: the question is asked again by the yes that
\* follows, which changes nothing in the session data.
C29_ControlTurnKeepsQuestion ==
    [][/\ PendingQuestionTurn =>
            /\ data' = [data EXCEPT !.fallbackCount = 0]
            /\ response' = "ask"
            /\ IF turn'.intent = "help"
               THEN turn'.branch = "control" /\ HELP_CONTEXT \in contexts'
               ELSE turn'.branch = "question" /\ HELP_CONTEXT \notin contexts'
       /\ (turn'.intent = "helpYes" /\ response = "ask") =>
            /\ data' = data
            /\ turn'.branch = "question"
            /\ response' = "ask"]_vars

\* help was asked for after a fallback on the second question of a round, and
\* the yes to its prompt has asked the question again
C29_Witness ==
    /\ turn.intent = "helpYes"
    /\ turn.branch = "question"
    /\ response = "ask"
    /\ data.fallbackCount = 0
    /\ data.currentQuestion = 1
    /\ data.score = 1
    /\ tally.other = 1

\* A session field that the handlers of a pending question read is missing
MissingField(d) == d.questionPrompt = "" \/ d.selectedAnswers = <<>>

\* C24: a turn that was processed while a required session field was missing
\* has ended with one response, which closes the session.
C24_MissingFieldEndsSession ==
    (/\ turn.intent \notin {"none", "main"}
     /\ response # "pending"
     /\ MissingField(data))
        => (response = "tell" /\ turn.responses = 1)

\* The answer set of the first question selected for a round, in the corpus
\* with short answer sets
FirstShortAnswers == AnswersIn(ShortAnswers, At(selected, 0))

\* A turn that calls nextQuestion before the last question of the round
AdvancingTurn ==
    /\ turn'.branch \in {"answer", "dictionary", "skip"}
    /\ response = "ask"
    /\ data.currentQuestion < data.gameLength - 1

\* C26: when the answer set of the first question of a round has fewer than
\* two entries, the round is not stored and the session is closed with
\* app.tell; when the answer set of the next question has fewer than two
\* entries, the turn that was to advance closes the session with app.tell and
\* currentQuestion, selectedAnswers and correctAnswer stay as they were.
C26_ShortAnswerSetEndsSession ==
    [][/\ (response = "pending" /\ selpc = "done" /\ response' # "pending"
           /\ Len(FirstShortAnswers) < 2)
            => /\ response' = "tell"
               /\ turn'.branch = "failed"
               /\ turn'.responses = 1
               /\ data' = [data EXCEPT !.fallbackCount = 0]
       /\ (AdvancingTurn /\ Len(NextStoredAnswers) < 2)
            => /\ response' = "tell"
               /\ turn'.responses = 1
               /\ data'.currentQuestion = data.currentQuestion
               /\ data'.selectedAnswers = data.selectedAnswers
               /\ data'.correctAnswer = data.correctAnswer]_vars

\* the first question of a round was answered right, and the second has one
\* answer only: the session was closed on the first question
C26_Witness ==
    /\ turn.branch = "answer"
    /\ turn.scored = "right"
    /\ response = "tell"
    /\ data.currentQuestion = 0
    /\ Len(AnswerSetAt(data.sessionAnswers, 1)) = 1

\* C25: every turn that waits for the database goes on to a response,
\* whatever the database answers.
C25_EveryTurnResponds ==
    (response = "pending") ~> (response \in {"ask", "tell"})

\* C31: once a round has started, 0 <= score <= gameLength in every state of
\* the session, whatever turns were taken, those after the last question was
\* answered included.
C31_ScoreInRange ==
    RoundStarted => (0 <= data.score /\ data.score <= data.gameLength)

\* C32: between one round start and the next, persistScore is called at most
\* once.
C32_PersistedOncePerRound == tally.persisted <= 1

RECURSIVE SumOf(_)
SumOf(scores) == IF scores = <<>> THEN 0 ELSE Head(scores) + SumOf(Tail(scores))

MaxOf(scores) == CHOOSE x \in Range(scores) : \A y \in Range(scores) : y <= x

MinOf(scores) == CHOOSE x \in Range(scores) : \A y \in Range(scores) : x <= y

\* C33: when the scores of k rounds were persisted one after another, the
\* record holds k as the number of rounds, their sum as the total, and their
\* maximum and minimum as the highest and the lowest score.
C33_StatsMatchScores ==
    (persistLog.scores # <<>> /\ ~persistLog.overlapped)
        => /\ user.scores = Len(persistLog.scores)
           /\ user.totalScore = SumOf(persistLog.scores)
           /\ user.highestScore = MaxOf(persistLog.scores)
           /\ user.lowestScore = MinOf(persistLog.scores)
           /\ user.lowestScore <= user.highestScore

\* C34: when calls of persistScore for one user have overlapped and all have
\* written, every round is in the record: the number of rounds and the total
\* have grown by each of them (stated for rounds with a score above 0).
C34_OverlappingRoundsStored ==
    (/\ persistLog.overlapped
     /\ \A s \in Sessions : ~Persisting(s)
     /\ 0 \notin Range(persistLog.scores))
        => /\ user.scores = Len(persistLog.scores)
           /\ user.totalScore = SumOf(persistLog.scores)

\* C35: a don't-know turn leaves the score unchanged, clears the correctness
\* flag, and moves the round on by one question, or finalizes it on the last
\* question.
C35_SkipIsWrongAnswer ==
    [][(turn'.intent = "dontKnow" /\ response = "ask") =>
        /\ data'.score = data.score
        /\ data'.correct = FALSE
        /\ IF data.currentQuestion = data.gameLength - 1
           THEN /\ PLAY_AGAIN_CONTEXT \in contexts'
                /\ data'.currentQuestion = data.currentQuestion
           ELSE data'.currentQuestion = data.currentQuestion + 1]_vars

\* C36: declining to quit while a question of the round is pending, the last
\* one included, changes nothing in the session data but fallbackCount, which
\* becomes 0, and asks the same question again.
C36_DoneNoResumesQuestion ==
    [][(/\ turn'.intent = "doneNo"
        /\ response = "ask"
        /\ DONE_CONTEXT \in contexts
        /\ tally.persisted = 0) =>
            /\ data' = [data EXCEPT !.fallbackCount = 0]
            /\ turn'.branch = "question"
            /\ response' = "ask"]_vars

\* The list findAllSynonyms builds for the k-th value, before any removal
SynonymsBefore(k) == SynonymsOfValue(Trim(synValues[k]))

\* The entries of the k-th list that are single synonyms and occur in the list
\* of no other value
OwnWords(k) ==
    {w \in Range(SynonymsBefore(k)) :
        /\ IndexOf(w, SEPARATOR) = -1
        /\ \A m \in 1..Len(synValues) : m # k => w \notin Range(SynonymsBefore(m))}

\* C37: every word that occurs in the list of one value only is still in the
\* group returned for that value.
C37_OwnWordsKept ==
    synResults # <<>> =>
        \A k \in 1..Len(synResults) : OwnWords(k) \subseteq Range(Group(k))

====
